---- MODULE Spec2Model ----
(***************************************************************************)
(* The Servos engine of core/servos.py as a state machine: the connection, *)
(* torque and calibration flags, the draft and committed calibration sets, *)
(* the calibration file, and the operations a front end calls on it.       *)
(* Every bus transaction (_write / _read) either succeeds or exhausts its  *)
(* retries; saving the calibration file either succeeds or raises.         *)
(* A second specification, BusSpec, follows one _read or _write through    *)
(* its retry loop, exchange by exchange.                                   *)
(***************************************************************************)
EXTENDS Integers, Sequences, FiniteSets, TLC

(* ---------------------------------------------------------------- bounds *)

\* Number of configured servo ids (config 'servo_ids'), ids are 1..NumServos.
NumServos == 1

\* Raw positions a capture can deliver are 1..MaxPos.
MaxPos == 2

\* Calibration points of the angle mapping are 0..MaxCal.
MaxCal == 4

\* Websocket clients of api/server.py.
NumClients == 2

\* Request threads of ui/server.py that run at the same time.
NumHandlers == 2

\* Port handlers a caching controller creates in one run.
MaxHandlers == 3

(* ------------------------------------------------------------- constants *)

\* __init__ defaults, written once per servo by _configure_servos.
P_COEF == 8
I_COEF == 0
D_COEF == 16
MAX_ACCEL == 254
ACCEL == 254

servo_ids == [i \in 1..NumServos |-> i]

ServoIds == {servo_ids[i] : i \in 1..NumServos}

\* An id that is not configured, for calls with a bad servo id.
UnknownId == NumServos + 1

Positions == 1..MaxPos

required_points == <<"zero", "min", "max">>

Points == {required_points[i] : i \in 1..Len(required_points)}

\* A point name that is not one of zero/min/max.
BadPoint == "mid"

\* str(servo_id): the keys of both calibration dicts are decimal strings.
str(i) == <<"1", "2", "3", "4", "5", "6", "7", "8", "9">>[i]

\* {} : a dict without keys.
EmptyDict == [k \in {} |-> 0]

\* d[k] = v on a dict (adds the key when absent).
DictSet(d, k, v) == [x \in (DOMAIN d) \cup {k} |-> IF x = k THEN v ELSE d[x]]

\* d.setdefault(k, {})
SetDefault(d, k) == IF k \in DOMAIN d THEN d ELSE DictSet(d, k, EmptyDict)

(* ----------------------------------------------------------------- state *)

VARIABLES
    connected,              \* self.connected
    torque_enabled,         \* self.torque_enabled
    calibration_mode,       \* self.calibration_mode (TRUE = in progress)
    temp_calibration_data,  \* self.temp_calibration_data, the draft
    calibration,            \* self.calibration, the committed set
    is_calibrated,          \* self.is_calibrated
    aliased,                \* the committed set's inner dicts are the draft's
    store,                  \* content of data/calibration.json ({} = absent)
    port,                   \* "open" | "closed": the serial port of port_handler
    op,                     \* the operation called last
    args,                   \* the arguments it was given
    ret,                    \* what it returned or raised
    trace,                  \* bus and file activity of that call, in order
    pc,                     \* where a group transaction stands: "idle", "loop",
                            \* "returned" or "raised"
    attempt,                \* the loop variable of its retry loop
    group,                  \* the GroupSyncRead / GroupSyncWrite it built
    packets,                \* what it did on the serial port, in order
    received,               \* the data its reader holds, one value per id
    result,                 \* the array a read returned
    converted,              \* what a conversion returned: <<position>>, or
                            \* <<num, den>> for the angle num / den degrees
    _is_connected,          \* ui/server.py: servo_controller._is_connected
    active_ws_connections,  \* ui/server.py: the set of open websockets
    broadcast_thread,       \* ui/server.py: where the broadcast thread stands
    handler_threads,        \* ui/server.py: where each request thread stands
    lifespan,               \* api/server.py: "startup", then "task" when the
                            \* broadcast task was created, "no_task" when not
    is_calibrating,         \* api/server.py: the global flag
    active_connections,     \* api/server.py: manager.active_connections
    endpoints,              \* api/server.py: clients whose websocket_endpoint
                            \* coroutine is running
    caller,                 \* api/server.py: the coroutine that made the last
                            \* call of the engine
    controller,             \* the caching controller class at hand
    handlers,               \* how many scs.PortHandler objects it has made
    port_handler,           \* self.port_handler: the number of the object, 0
                            \* when there is none
    _readers,               \* group_key -> port handler of the cached reader
    _writers                \* group_key -> port handler of the cached writer

vars == <<connected, torque_enabled, calibration_mode, temp_calibration_data,
          calibration, is_calibrated, aliased, store, port, op, args, ret,
          trace, pc, attempt, group, packets, received, result,
          converted, _is_connected, active_ws_connections, broadcast_thread,
          handler_threads, lifespan, is_calibrating, active_connections,
          endpoints, caller, controller, handlers, port_handler, _readers,
          _writers>>

engine == <<connected, torque_enabled, calibration_mode, temp_calibration_data,
            calibration, is_calibrated, aliased, store, port>>

transaction == <<pc, attempt, group, packets, received, result>>

conversion == <<converted>>

ui == <<_is_connected, active_ws_connections, broadcast_thread, handler_threads>>

api == <<lifespan, is_calibrating, active_connections, endpoints, caller>>

cache == <<controller, handlers, port_handler, _readers, _writers>>

servers == <<ui, api, cache>>

(* ------------------------------------------------------ calibration file *)

\* A complete calibration set holding position p at every point.
FlatCal(p) == [k \in {str(i) : i \in ServoIds} |-> [q \in Points |-> p]]

\* What data/calibration.json may hold when the engine is constructed:
\* nothing, a complete set, or a set that lacks servos and points.
InitStores ==
    { EmptyDict,
      FlatCal(1),
      [k \in {str(servo_ids[1])} |-> [q \in {"zero"} |-> 1]] }

\* A load that finds no readable file.
_load_calibration_unreadable(file) == EmptyDict

\* _load_calibration(): json.load of the file's content, {} when the file is
\* absent or unreadable. The dicts written have string keys and integer
\* values, which json.dump and json.load give back unchanged.
_load_calibration(file) == file

\* bool(d) of a dict.
bool(d) == DOMAIN d # {}

(* ------------------------------------------------------------ bus events *)

\* One entry of the activity log: kind is "open", "close", "write", "read" or
\* "save"; a bus transaction names its register, its ids and (for a write)
\* its values; ok tells whether it succeeded.
Ev(kind, reg, ids, vals, ok) ==
    [kind |-> kind, reg |-> reg, ids |-> ids, vals |-> vals, ok |-> ok]

\* Outcome of _write(data_name, values, ids) when the link delivers (ok) or
\* every retry fails (~ok): on a port that was closed the buffer reset raises
\* before anything is sent.
_write_ret(ok) ==
    IF port # "open" THEN "SerialException"
    ELSE IF ok THEN "None" ELSE "RuntimeError"

_write(data_name, vals, ids, ok) ==
    IF port # "open" THEN <<>>
    ELSE <<Ev("write", data_name, ids, vals, ok)>>

\* _read(data_name, ids): same shape; a read that succeeds carries the values
\* the servos answered, one per id, in the order of ids.
_read_ret(ok) ==
    IF port # "open" THEN "SerialException"
    ELSE IF ok THEN "None" ELSE "RuntimeError"

_read(data_name, ids, vals, ok) ==
    IF port # "open" THEN <<>>
    ELSE <<Ev("read", data_name, ids, IF ok THEN vals ELSE <<>>, ok)>>

\* [v] * len(servo_ids)
Repeat(v) == [i \in 1..NumServos |-> v]

\* self._write("Torque_Enable", 1 if enabled else 0)
TorqueWrite(enabled, ok) ==
    _write("Torque_Enable", Repeat(IF enabled THEN 1 ELSE 0), servo_ids, ok)

(* ------------------------------------------------------ connect/disconnect *)

\* The registers _configure_servos writes for one servo, in order.
ConfigRegs ==
    << <<"Mode", 0>>, <<"P_Coefficient", P_COEF>>, <<"I_Coefficient", I_COEF>>,
       <<"D_Coefficient", D_COEF>>, <<"Lock", 0>>,
       <<"Maximum_Acceleration", MAX_ACCEL>>, <<"Acceleration", ACCEL>> >>

NumConfigWrites == NumServos * Len(ConfigRegs)

\* The n-th write of _configure_servos: servo by servo, register by register.
ConfigWrite(n, ok) ==
    LET id  == servo_ids[((n - 1) \div Len(ConfigRegs)) + 1]
        reg == ConfigRegs[((n - 1) % Len(ConfigRegs)) + 1]
    IN  Ev("write", reg[1], <<id>>, <<reg[2]>>, ok)

\* _configure_servos() with the failAt-th write failing (0: none fails); a
\* failed write raises, so nothing is written after it.
_configure_servos(failAt) ==
    [n \in 1..(IF failAt = 0 THEN NumConfigWrites ELSE failAt)
        |-> ConfigWrite(n, n # failAt)]

\* connect() without the early return: it opens and configures again.
connect_again(opened, failAt) ==
    /\ op' = "connect"
    /\ args' = <<>>
    /\ IF ~opened
       THEN /\ ret' = "OSError"
            /\ trace' = <<Ev("open", "", <<>>, <<>>, FALSE),
                          Ev("close", "", <<>>, <<>>, TRUE)>>
            /\ port' = "closed"
            /\ UNCHANGED <<connected, torque_enabled, calibration_mode,
                           temp_calibration_data, calibration, is_calibrated,
                           aliased, store>>
       ELSE /\ ret' = "None"
            /\ trace' = <<Ev("open", "", <<>>, <<>>, TRUE)>>
                        \o _configure_servos(0)
                        \o <<Ev("write", "Torque_Enable", servo_ids, Repeat(1), TRUE)>>
            /\ connected' = TRUE
            /\ port' = "open"
            /\ torque_enabled' = TRUE
            /\ UNCHANGED <<calibration_mode, temp_calibration_data, calibration,
                           is_calibrated, aliased, store>>

\* connect(): opened says whether openPort() succeeds, failAt which bus write
\* fails (0: none, NumConfigWrites + 1: the torque write).
connect(opened, failAt) ==
    /\ op' = "connect"
    /\ args' = <<>>
    /\ IF connected
       THEN /\ ret' = "None"
            /\ trace' = <<>>
            /\ UNCHANGED engine
       ELSE IF ~opened
       THEN /\ ret' = "OSError"
            /\ trace' = <<Ev("open", "", <<>>, <<>>, FALSE),
                          Ev("close", "", <<>>, <<>>, TRUE)>>
            /\ port' = "closed"
            /\ UNCHANGED <<connected, torque_enabled, calibration_mode,
                           temp_calibration_data, calibration, is_calibrated,
                           aliased, store>>
       ELSE IF failAt \in 1..NumConfigWrites
       THEN /\ ret' = "RuntimeError"
            /\ trace' = <<Ev("open", "", <<>>, <<>>, TRUE)>>
                        \o _configure_servos(failAt)
                        \o <<Ev("close", "", <<>>, <<>>, TRUE)>>
            /\ connected' = TRUE
            /\ port' = "closed"
            /\ UNCHANGED <<torque_enabled, calibration_mode,
                           temp_calibration_data, calibration, is_calibrated,
                           aliased, store>>
       ELSE IF failAt = NumConfigWrites + 1
       THEN /\ ret' = "RuntimeError"
            /\ trace' = <<Ev("open", "", <<>>, <<>>, TRUE)>>
                        \o _configure_servos(0)
                        \o <<Ev("write", "Torque_Enable", servo_ids, Repeat(1), FALSE),
                             Ev("close", "", <<>>, <<>>, TRUE)>>
            /\ connected' = TRUE
            /\ port' = "closed"
            /\ UNCHANGED <<torque_enabled, calibration_mode,
                           temp_calibration_data, calibration, is_calibrated,
                           aliased, store>>
       ELSE /\ ret' = "None"
            /\ trace' = <<Ev("open", "", <<>>, <<>>, TRUE)>>
                        \o _configure_servos(0)
                        \o <<Ev("write", "Torque_Enable", servo_ids, Repeat(1), TRUE)>>
            /\ connected' = TRUE
            /\ port' = "open"
            /\ torque_enabled' = TRUE
            /\ UNCHANGED <<calibration_mode, temp_calibration_data, calibration,
                           is_calibrated, aliased, store>>

\* disconnect() that closes the port without releasing torque first.
disconnect_keeps_torque(ok) ==
    /\ op' = "disconnect"
    /\ args' = <<>>
    /\ IF ~connected
       THEN /\ ret' = "None"
            /\ trace' = <<>>
            /\ UNCHANGED engine
       ELSE /\ ret' = "None"
            /\ trace' = <<Ev("close", "", <<>>, <<>>, TRUE)>>
            /\ port' = "closed"
            /\ connected' = FALSE
            /\ UNCHANGED <<torque_enabled, calibration_mode,
                           temp_calibration_data, calibration, is_calibrated,
                           aliased, store>>

\* disconnect() that closes the port whatever became of the torque-off write.
disconnect_ignores_failure(ok) ==
    /\ op' = "disconnect"
    /\ args' = <<>>
    /\ IF ~connected
       THEN /\ ret' = "None"
            /\ trace' = <<>>
            /\ UNCHANGED engine
       ELSE /\ ret' = "None"
            /\ trace' = (IF torque_enabled THEN TorqueWrite(FALSE, ok) ELSE <<>>)
                        \o <<Ev("close", "", <<>>, <<>>, TRUE)>>
            /\ torque_enabled' = (torque_enabled /\ _write_ret(ok) # "None")
            /\ port' = "closed"
            /\ connected' = FALSE
            /\ UNCHANGED <<calibration_mode, temp_calibration_data, calibration,
                           is_calibrated, aliased, store>>

\* disconnect() that cannot close a port that is closed already.
disconnect_needs_open_port(ok) ==
    /\ op' = "disconnect"
    /\ args' = <<>>
    /\ IF ~connected
       THEN /\ ret' = "None"
            /\ trace' = <<>>
            /\ UNCHANGED engine
       ELSE IF port # "open" \/ (torque_enabled /\ ~ok)
       THEN /\ ret' = IF port # "open" THEN "SerialException" ELSE "RuntimeError"
            /\ trace' = IF port # "open" THEN <<>> ELSE TorqueWrite(FALSE, ok)
            /\ UNCHANGED engine
       ELSE /\ ret' = "None"
            /\ trace' = (IF torque_enabled THEN TorqueWrite(FALSE, ok) ELSE <<>>)
                        \o <<Ev("close", "", <<>>, <<>>, TRUE)>>
            /\ torque_enabled' = FALSE
            /\ port' = "closed"
            /\ connected' = FALSE
            /\ UNCHANGED <<calibration_mode, temp_calibration_data, calibration,
                           is_calibrated, aliased, store>>

\* disconnect(): ok is the outcome of the torque-off write, when one is made.
disconnect(ok) ==
    /\ op' = "disconnect"
    /\ args' = <<>>
    /\ IF ~connected
       THEN /\ ret' = "None"
            /\ trace' = <<>>
            /\ UNCHANGED engine
       ELSE IF torque_enabled /\ _write_ret(ok) # "None"
       THEN /\ ret' = _write_ret(ok)
            /\ trace' = TorqueWrite(FALSE, ok)
            /\ UNCHANGED engine
       ELSE /\ ret' = "None"
            /\ trace' = (IF torque_enabled THEN TorqueWrite(FALSE, ok) ELSE <<>>)
                        \o <<Ev("close", "", <<>>, <<>>, TRUE)>>
            /\ torque_enabled' = FALSE
            /\ port' = "closed"
            /\ connected' = FALSE
            /\ UNCHANGED <<calibration_mode, temp_calibration_data, calibration,
                           is_calibrated, aliased, store>>

\* set_torque_enabled that records the new value before it knows the write's
\* outcome.
set_torque_enabled_eager(enabled, ok) ==
    /\ op' = "set_torque_enabled"
    /\ args' = <<enabled>>
    /\ IF ~connected
       THEN /\ ret' = "AssertionError"
            /\ trace' = <<>>
            /\ UNCHANGED engine
       ELSE /\ ret' = _write_ret(ok)
            /\ trace' = TorqueWrite(enabled, ok)
            /\ torque_enabled' = enabled
            /\ UNCHANGED <<connected, calibration_mode, temp_calibration_data,
                           calibration, is_calibrated, aliased, store, port>>

\* set_torque_enabled(enabled)
set_torque_enabled(enabled, ok) ==
    /\ op' = "set_torque_enabled"
    /\ args' = <<enabled>>
    /\ IF ~connected
       THEN /\ ret' = "AssertionError"
            /\ trace' = <<>>
            /\ UNCHANGED engine
       ELSE /\ ret' = _write_ret(ok)
            /\ trace' = TorqueWrite(enabled, ok)
            /\ torque_enabled' = IF _write_ret(ok) = "None" THEN enabled
                                 ELSE torque_enabled
            /\ UNCHANGED <<connected, calibration_mode, temp_calibration_data,
                           calibration, is_calibrated, aliased, store, port>>

(* ----------------------------------------------------------- calibration *)

\* A completeness check that only looks for each servo's key in the draft.
missing_points_keys_only(draft) ==
    { str(id) : id \in { i \in ServoIds : str(i) \notin DOMAIN draft } }

\* The servos end_calibration() reports as missing points: those without a
\* key in the draft and those whose entry lacks a required point.
missing_points(draft) ==
    { str(id) : id \in
        { i \in ServoIds :
            \/ str(i) \notin DOMAIN draft
            \/ \E q \in Points : q \notin DOMAIN draft[str(i)] } }

\* start_calibration() that forgets to empty the draft.
start_calibration_keeps_draft(ok) ==
    /\ op' = "start_calibration"
    /\ args' = <<>>
    /\ IF ~connected
       THEN /\ ret' = "AssertionError"
            /\ trace' = <<>>
            /\ UNCHANGED engine
       ELSE IF calibration_mode
       THEN /\ ret' = "None"
            /\ trace' = <<>>
            /\ UNCHANGED engine
       ELSE /\ calibration_mode' = TRUE
            /\ IF torque_enabled
               THEN /\ ret' = _write_ret(ok)
                    /\ trace' = TorqueWrite(FALSE, ok)
                    /\ torque_enabled' = (_write_ret(ok) # "None")
               ELSE /\ ret' = "None"
                    /\ trace' = <<>>
                    /\ UNCHANGED torque_enabled
            /\ UNCHANGED <<connected, temp_calibration_data, aliased,
                           calibration, is_calibrated, store, port>>

\* start_calibration(): ok is the outcome of the torque-off write.
start_calibration(ok) ==
    /\ op' = "start_calibration"
    /\ args' = <<>>
    /\ IF ~connected
       THEN /\ ret' = "AssertionError"
            /\ trace' = <<>>
            /\ UNCHANGED engine
       ELSE IF calibration_mode
       THEN /\ ret' = "None"
            /\ trace' = <<>>
            /\ UNCHANGED engine
       ELSE /\ temp_calibration_data' = EmptyDict
            /\ aliased' = FALSE
            /\ calibration_mode' = TRUE
            /\ IF torque_enabled
               THEN /\ ret' = _write_ret(ok)
                    /\ trace' = TorqueWrite(FALSE, ok)
                    /\ torque_enabled' = (_write_ret(ok) # "None")
               ELSE /\ ret' = "None"
                    /\ trace' = <<>>
                    /\ UNCHANGED torque_enabled
            /\ UNCHANGED <<connected, calibration, is_calibrated, store, port>>

\* A tail that returns without re-enabling torque.
ReenableTorque_skipped(sofar, ok) ==
    /\ ret' = "None"
    /\ trace' = sofar
    /\ UNCHANGED torque_enabled

\* The tail of end_calibration() and cancel_calibration():
\* self.set_torque_enabled(True), appended to the activity so far.
ReenableTorque(sofar, ok) ==
    IF ~connected
    THEN /\ ret' = "AssertionError"
         /\ trace' = sofar
         /\ UNCHANGED torque_enabled
    ELSE /\ ret' = _write_ret(ok)
         /\ trace' = sofar \o TorqueWrite(TRUE, ok)
         /\ torque_enabled' = IF _write_ret(ok) = "None" THEN TRUE
                              ELSE torque_enabled

\* An incomplete end that stays in calibration mode.
EndWithoutCommit_stays ==
    /\ ret' = "None"
    /\ trace' = <<>>
    /\ UNCHANGED engine

\* end_calibration() leaving without a commit: nothing to save, or points
\* missing. Both paths only leave calibration mode.
EndWithoutCommit ==
    /\ ret' = "None"
    /\ trace' = <<>>
    /\ calibration_mode' = FALSE
    /\ UNCHANGED <<connected, torque_enabled, temp_calibration_data,
                   calibration, is_calibrated, aliased, store, port>>

\* end_calibration(): saved says whether writing the calibration file
\* succeeds, ok is the outcome of the torque-on write.
end_calibration(saved, ok) ==
    /\ op' = "end_calibration"
    /\ args' = <<>>
    /\ IF ~calibration_mode
       THEN /\ ret' = "AssertionError"
            /\ trace' = <<>>
            /\ UNCHANGED engine
       ELSE IF ~bool(temp_calibration_data)
       THEN EndWithoutCommit
       ELSE IF missing_points(temp_calibration_data) # {}
       THEN EndWithoutCommit
       ELSE IF ~saved
       THEN \* self.calibration = draft.copy() is a shallow copy, then open()
            \* or json.dump raises
            /\ ret' = "OSError"
            /\ trace' = <<Ev("save", "", <<>>, <<>>, FALSE)>>
            /\ calibration' = temp_calibration_data
            /\ is_calibrated' = TRUE
            /\ aliased' = TRUE
            /\ UNCHANGED <<connected, torque_enabled, calibration_mode,
                           temp_calibration_data, store, port>>
       ELSE /\ store' = temp_calibration_data
            /\ calibration_mode' = FALSE
            /\ temp_calibration_data' = EmptyDict
            /\ calibration' = _load_calibration(store')
            /\ is_calibrated' = bool(calibration')
            /\ aliased' = FALSE
            /\ ReenableTorque(<<Ev("save", "", <<>>, <<>>, TRUE)>>, ok)
            /\ UNCHANGED <<connected, port>>

\* cancel_calibration()
cancel_calibration(ok) ==
    /\ op' = "cancel_calibration"
    /\ args' = <<>>
    /\ IF ~calibration_mode
       THEN /\ ret' = "None"
            /\ trace' = <<>>
            /\ UNCHANGED engine
       ELSE /\ temp_calibration_data' = EmptyDict
            /\ aliased' = FALSE
            /\ calibration_mode' = FALSE
            /\ ReenableTorque(<<>>, ok)
            /\ UNCHANGED <<connected, calibration, is_calibrated, store, port>>

\* A store that replaces the servo's entry by one holding only the new point.
StorePoint_replaces(draft, servo_id, point_name, position) ==
    DictSet(draft, str(servo_id), [q \in {point_name} |-> position])

\* The draft after  servo_cal = draft.setdefault(str(servo_id), {});
\* servo_cal[point_name] = position.
StorePoint(draft, servo_id, point_name, position) ==
    LET k == str(servo_id)
        d == SetDefault(draft, k)
    IN  DictSet(d, k, DictSet(d[k], point_name, position))

\* What get_positions() reads when the servo asked for stands at live: one
\* position per configured servo (the other servos' answers are not used).
LivePositions(servo_id, live) ==
    [i \in 1..NumServos |-> IF servo_ids[i] = servo_id THEN live ELSE 1]

\* set_calibration_point(servo_id, point_name, position): position is <<p>>, or
\* <<>> for None; then the position is read from the bus, ok says whether the
\* read succeeds and live is the position read.
set_calibration_point(servo_id, point_name, position, ok, live) ==
    /\ op' = "set_calibration_point"
    /\ args' = <<servo_id, point_name, position>>
    /\ IF ~connected \/ ~calibration_mode
       THEN /\ ret' = "AssertionError"
            /\ trace' = <<>>
            /\ UNCHANGED engine
       ELSE IF servo_id \notin ServoIds \/ point_name \notin Points
       THEN /\ ret' = "ValueError"
            /\ trace' = <<>>
            /\ UNCHANGED engine
       ELSE IF position = <<>> /\ _read_ret(ok) # "None"
       THEN /\ ret' = _read_ret(ok)
            /\ trace' = _read("Present_Position", servo_ids,
                              LivePositions(servo_id, live), ok)
            /\ UNCHANGED engine
       ELSE LET pos == IF position = <<>> THEN live ELSE position[1]
                new == StorePoint(temp_calibration_data, servo_id, point_name, pos)
            IN  /\ ret' = "None"
                /\ trace' = IF position = <<>>
                            THEN _read("Present_Position", servo_ids,
                                       LivePositions(servo_id, live), ok)
                            ELSE <<>>
                /\ temp_calibration_data' = new
                \* the committed set shares the draft's inner dicts after a
                \* commit whose save raised
                /\ calibration' = IF aliased
                                  THEN [calibration EXCEPT ![str(servo_id)] =
                                            new[str(servo_id)]]
                                  ELSE calibration
                /\ UNCHANGED <<connected, torque_enabled, calibration_mode,
                               is_calibrated, aliased, store, port>>

\* The k-th prompt of iterative_calibration(): servo by servo, the zero, min
\* and max point of each.
PromptServo(k) == servo_ids[((k - 1) \div Len(required_points)) + 1]

PromptPoint(k) == required_points[((k - 1) % Len(required_points)) + 1]

NumPrompts == NumServos * Len(required_points)

\* The draft after the first k prompts were answered with position p.
RECURSIVE DraftAfter(_, _, _)
DraftAfter(draft, k, p) ==
    IF k = 0 THEN draft
    ELSE StorePoint(DraftAfter(draft, k - 1, p), PromptServo(k), PromptPoint(k), p)

\* The reads of the first k prompts; the last of them fails when ~ok.
RECURSIVE PromptReads(_, _, _)
PromptReads(k, p, ok) ==
    IF k = 0 THEN <<>>
    ELSE PromptReads(k - 1, p, TRUE) \o _read("Present_Position", servo_ids, Repeat(p), ok)

\* iterative_calibration(): ok_off is the outcome of start_calibration()'s
\* torque-off write, reads the number of prompts whose get_positions()
\* succeeds (the next one raises), p the position every servo reports,
\* answer the reply to 'Save calibration data?', saved whether the
\* calibration file can be written and ok_on the outcome of the torque-on
\* write of end_calibration() or cancel_calibration(). start_calibration()
\* is called before the try block; every later exception is caught and
\* followed by cancel_calibration(), whose own torque-on write can raise
\* out of the handler.
iterative_calibration(ok_off, reads, p, answer, saved, ok_on) ==
    LET entering == ~calibration_mode
        off_ret == IF entering /\ torque_enabled THEN _write_ret(ok_off) ELSE "None"
        off_trace == IF entering /\ torque_enabled THEN TorqueWrite(FALSE, ok_off) ELSE <<>>
        torque0 == IF entering /\ torque_enabled THEN off_ret # "None" ELSE torque_enabled
        draft0 == IF entering THEN EmptyDict ELSE temp_calibration_data
        aliased0 == IF entering THEN FALSE ELSE aliased
        done == IF _read_ret(TRUE) # "None" THEN 0 ELSE reads
        draft == DraftAfter(draft0, done, p)
        \* the committed set shares the draft's inner dicts after a commit
        \* whose save raised
        shared == [k \in DOMAIN calibration |->
                      IF aliased0 /\ k \in DOMAIN draft /\ k \in DOMAIN draft0
                            /\ \E j \in 1..done : str(PromptServo(j)) = k
                      THEN draft[k] ELSE calibration[k]]
        read_trace == IF done < NumPrompts
                      THEN PromptReads(done + 1, p, FALSE)
                      ELSE PromptReads(done, p, TRUE)
        on_ret == _write_ret(ok_on)
        on_trace == TorqueWrite(TRUE, ok_on)
        torque1 == IF on_ret = "None" THEN TRUE ELSE torque0
    IN
    /\ op' = "iterative_calibration"
    /\ args' = <<>>
    /\ IF ~connected
       THEN /\ ret' = "AssertionError"
            /\ trace' = <<>>
            /\ UNCHANGED engine
       ELSE IF off_ret # "None"
       THEN \* start_calibration() raised outside the try block
            /\ ret' = off_ret
            /\ trace' = off_trace
            /\ calibration_mode' = TRUE
            /\ temp_calibration_data' = EmptyDict
            /\ aliased' = FALSE
            /\ UNCHANGED <<connected, torque_enabled, calibration,
                           is_calibrated, store, port>>
       ELSE IF done < NumPrompts
       THEN \* a get_positions() raised: except, cancel_calibration()
            /\ ret' = on_ret
            /\ trace' = off_trace \o read_trace \o on_trace
            /\ calibration_mode' = FALSE
            /\ temp_calibration_data' = EmptyDict
            /\ aliased' = FALSE
            /\ torque_enabled' = torque1
            /\ calibration' = shared
            /\ UNCHANGED <<connected, is_calibrated, store, port>>
       ELSE IF ~answer
       THEN \* cancel_calibration(); when its torque-on write raises, the
            \* handler's cancel_calibration() finds no calibration in progress
            /\ ret' = "None"
            /\ trace' = off_trace \o read_trace \o on_trace
            /\ calibration_mode' = FALSE
            /\ temp_calibration_data' = EmptyDict
            /\ aliased' = FALSE
            /\ torque_enabled' = torque1
            /\ calibration' = shared
            /\ UNCHANGED <<connected, is_calibrated, store, port>>
       ELSE IF ~saved
       THEN \* end_calibration() commits, the file write raises: except,
            \* cancel_calibration()
            /\ ret' = on_ret
            /\ trace' = off_trace \o read_trace
                           \o <<Ev("save", "", <<>>, <<>>, FALSE)>> \o on_trace
            /\ calibration' = draft
            /\ is_calibrated' = TRUE
            /\ calibration_mode' = FALSE
            /\ temp_calibration_data' = EmptyDict
            /\ aliased' = FALSE
            /\ torque_enabled' = torque1
            /\ UNCHANGED <<connected, store, port>>
       ELSE \* end_calibration() commits and saves; when its torque-on write
            \* raises, the handler's cancel_calibration() does nothing
            /\ ret' = "None"
            /\ trace' = off_trace \o read_trace
                           \o <<Ev("save", "", <<>>, <<>>, TRUE)>> \o on_trace
            /\ store' = draft
            /\ calibration' = _load_calibration(store')
            /\ is_calibrated' = bool(calibration')
            /\ calibration_mode' = FALSE
            /\ temp_calibration_data' = EmptyDict
            /\ aliased' = FALSE
            /\ torque_enabled' = torque1
            /\ UNCHANGED <<connected, port>>

(* ---------------------------------------------------- positions and angles *)

\* Angles a caller commands, in degrees; at these the float arithmetic of
\* _angle_to_position (angle / 90.0 * range) is exact.
Angles == {-90, 0, 90}

abs(x) == IF x >= 0 THEN x ELSE -x

\* int(n / d) for d > 0: truncation toward zero.
TruncDiv(n, d) == IF n >= 0 THEN n \div d ELSE -((-n) \div d)

\* self.calibration[str(servo_id)] has 'zero', 'min' and 'max'; a lookup of a
\* missing key raises KeyError.
HasEntry(servo_id) ==
    /\ str(servo_id) \in DOMAIN calibration
    /\ Points \subseteq DOMAIN calibration[str(servo_id)]

\* A conversion that centres angle 0 on the middle of the calibrated range.
_angle_to_position_centred(servo_id, angle) ==
    LET zero    == calibration[str(servo_id)]["zero"]
        min_pos == calibration[str(servo_id)]["min"]
        max_pos == calibration[str(servo_id)]["max"]
        is_reversed == min_pos > max_pos
        actual_min == IF is_reversed THEN max_pos ELSE min_pos
        actual_max == IF is_reversed THEN min_pos ELSE max_pos
        working_angle == IF is_reversed THEN -angle ELSE angle
        pos_range == abs(actual_max - zero)
        neg_range == abs(zero - actual_min)
    IN  IF angle = 0 THEN (actual_min + actual_max) \div 2
        ELSE IF working_angle > 0
        THEN TruncDiv(90 * zero + working_angle * pos_range, 90)
        ELSE TruncDiv(90 * zero - abs(working_angle) * neg_range, 90)

\* A conversion that clamps the angle to [-90, 90] first.
_angle_to_position_clamped(servo_id, angle) ==
    LET zero    == calibration[str(servo_id)]["zero"]
        min_pos == calibration[str(servo_id)]["min"]
        max_pos == calibration[str(servo_id)]["max"]
        clamped == IF angle > 90 THEN 90 ELSE IF angle < -90 THEN -90 ELSE angle
        is_reversed == min_pos > max_pos
        actual_min == IF is_reversed THEN max_pos ELSE min_pos
        actual_max == IF is_reversed THEN min_pos ELSE max_pos
        working_angle == IF is_reversed THEN -clamped ELSE clamped
        pos_range == abs(actual_max - zero)
        neg_range == abs(zero - actual_min)
    IN  IF angle = 0 THEN zero
        ELSE IF working_angle > 0
        THEN TruncDiv(90 * zero + working_angle * pos_range, 90)
        ELSE TruncDiv(90 * zero - abs(working_angle) * neg_range, 90)

\* A conversion that swaps min and max of a reversed servo but keeps the
\* sign of the angle.
_angle_to_position_same_sign(servo_id, angle) ==
    LET zero    == calibration[str(servo_id)]["zero"]
        min_pos == calibration[str(servo_id)]["min"]
        max_pos == calibration[str(servo_id)]["max"]
        is_reversed == min_pos > max_pos
        actual_min == IF is_reversed THEN max_pos ELSE min_pos
        actual_max == IF is_reversed THEN min_pos ELSE max_pos
        working_angle == angle
        pos_range == abs(actual_max - zero)
        neg_range == abs(zero - actual_min)
    IN  IF angle = 0 THEN zero
        ELSE IF working_angle > 0
        THEN TruncDiv(90 * zero + working_angle * pos_range, 90)
        ELSE TruncDiv(90 * zero - abs(working_angle) * neg_range, 90)

\* _angle_to_position(servo_id, angle) for a servo with an entry.
_angle_to_position(servo_id, angle) ==
    LET zero    == calibration[str(servo_id)]["zero"]
        min_pos == calibration[str(servo_id)]["min"]
        max_pos == calibration[str(servo_id)]["max"]
        is_reversed == min_pos > max_pos
        actual_min == IF is_reversed THEN max_pos ELSE min_pos
        actual_max == IF is_reversed THEN min_pos ELSE max_pos
        working_angle == IF is_reversed THEN -angle ELSE angle
        pos_range == abs(actual_max - zero)
        neg_range == abs(zero - actual_min)
    IN  IF angle = 0 THEN zero
        ELSE IF working_angle > 0
        THEN TruncDiv(90 * zero + working_angle * pos_range, 90)
        ELSE TruncDiv(90 * zero - abs(working_angle) * neg_range, 90)

\* An inverse that measures both sides against the full range min..max.
_position_to_angle_full_range(servo_id, position) ==
    LET zero    == calibration[str(servo_id)]["zero"]
        min_pos == calibration[str(servo_id)]["min"]
        max_pos == calibration[str(servo_id)]["max"]
        is_reversed == min_pos > max_pos
        actual_min == IF is_reversed THEN max_pos ELSE min_pos
        actual_max == IF is_reversed THEN min_pos ELSE max_pos
        full_range == abs(actual_max - actual_min)
    IN  IF position = zero THEN <<0, 1>>
        ELSE IF full_range = 0 THEN <<0, 1>>
        ELSE IF position > zero
        THEN LET angle == 90 * abs(position - zero)
             IN  <<IF is_reversed THEN -angle ELSE angle, full_range>>
        ELSE LET angle == 90 * abs(zero - position)
             IN  <<IF is_reversed THEN angle ELSE -angle, full_range>>

\* _position_to_angle(servo_id, position) for a servo with an entry. The
\* float it returns, 90.0 * relative_pos / range with its sign, is the
\* fraction <<numerator, denominator>>; 0.0 is <<0, 1>>.
_position_to_angle(servo_id, position) ==
    LET zero    == calibration[str(servo_id)]["zero"]
        min_pos == calibration[str(servo_id)]["min"]
        max_pos == calibration[str(servo_id)]["max"]
        is_reversed == min_pos > max_pos
        actual_min == IF is_reversed THEN max_pos ELSE min_pos
        actual_max == IF is_reversed THEN min_pos ELSE max_pos
        full_range == abs(actual_max - actual_min)
        pos_range == abs(actual_max - zero)
        neg_range == abs(zero - actual_min)
    IN  IF position = zero THEN <<0, 1>>
        ELSE IF full_range = 0 THEN <<0, 1>>
        ELSE IF position > zero
        THEN IF pos_range = 0 THEN <<0, 1>>
             ELSE LET angle == 90 * abs(position - zero)
                  IN  <<IF is_reversed THEN -angle ELSE angle, pos_range>>
        ELSE IF neg_range = 0 THEN <<0, 1>>
             ELSE LET angle == 90 * abs(zero - position)
                  IN  <<IF is_reversed THEN angle ELSE -angle, neg_range>>

\* ServoController's mapping (servo_controller/controller.py) reads the same
\* calibration entries under the names zero_pos, pos_90_pos (max) and
\* neg_90_pos (min).
CENTER_POSITION == 2048

MODEL_RESOLUTION == 4096

\* A mapping that takes the positive side's span as a magnitude.
ServoController_angle_to_position_unsigned(angle, servo_id) ==
    LET zero_pos   == calibration[str(servo_id)]["zero"]
        pos_90_pos == calibration[str(servo_id)]["max"]
        neg_90_pos == calibration[str(servo_id)]["min"]
    IN  IF angle = 0 THEN zero_pos
        ELSE IF angle > 0
        THEN TruncDiv(90 * zero_pos + angle * abs(pos_90_pos - zero_pos), 90)
        ELSE TruncDiv(90 * zero_pos + (-angle) * (neg_90_pos - zero_pos), 90)

\* ServoController._angle_to_position(angle, servo_id):
\* int(zero_pos + (angle / 90) * (pos_90_pos - zero_pos)) for a positive
\* angle, int(zero_pos + (angle / -90) * (neg_90_pos - zero_pos)) for a
\* negative one; int() truncates toward zero. A servo without an entry gets
\* the default mapping around CENTER_POSITION.
ServoController_angle_to_position(angle, servo_id) ==
    IF str(servo_id) \notin DOMAIN calibration
    THEN TruncDiv(360 * CENTER_POSITION + angle * MODEL_RESOLUTION, 360)
    ELSE
    LET zero_pos   == calibration[str(servo_id)]["zero"]
        pos_90_pos == calibration[str(servo_id)]["max"]
        neg_90_pos == calibration[str(servo_id)]["min"]
    IN  IF angle = 0 THEN zero_pos
        ELSE IF angle > 0
        THEN TruncDiv(90 * zero_pos + angle * (pos_90_pos - zero_pos), 90)
        ELSE TruncDiv(90 * zero_pos + (-angle) * (neg_90_pos - zero_pos), 90)

\* ServoController._position_to_angle(position, servo_id), the float as the
\* fraction <<numerator, denominator>>. A denominator of 0 stands for the
\* ZeroDivisionError of the division by neg_90_pos - zero_pos.
ServoController_position_to_angle(position, servo_id) ==
    IF str(servo_id) \notin DOMAIN calibration
    THEN <<(position - CENTER_POSITION) * 360, MODEL_RESOLUTION>>
    ELSE
    LET zero_pos   == calibration[str(servo_id)]["zero"]
        pos_90_pos == calibration[str(servo_id)]["max"]
        neg_90_pos == calibration[str(servo_id)]["min"]
    IN  IF position = zero_pos THEN <<0, 1>>
        ELSE IF (position - zero_pos) * (pos_90_pos - zero_pos) > 0
        THEN <<90 * (position - zero_pos), pos_90_pos - zero_pos>>
        ELSE <<-90 * (position - zero_pos), neg_90_pos - zero_pos>>

\* A dict argument {servo_id: value} is the sequence of its items, in the
\* order the dict yields them.
Keys(items) == [n \in 1..Len(items) |-> items[n][1]]

Values(items) == [n \in 1..Len(items) |-> items[n][2]]

\* get_positions(): vals are the positions the servos answer.
get_positions(vals, ok) ==
    /\ op' = "get_positions"
    /\ args' = <<>>
    /\ IF ~connected
       THEN /\ ret' = "AssertionError"
            /\ trace' = <<>>
       ELSE /\ ret' = _read_ret(ok)
            /\ trace' = _read("Present_Position", servo_ids, vals, ok)
    /\ UNCHANGED engine

\* A loop that commands the servos it has accepted so far when it meets an
\* id that is not configured.
set_position_body_partial(positions, ok) ==
    IF ~connected \/ ~torque_enabled
    THEN /\ ret' = "AssertionError"
         /\ trace' = <<>>
    ELSE IF \E n \in 1..Len(positions) : positions[n][1] \notin ServoIds
    THEN LET bad == CHOOSE n \in 1..Len(positions) :
                        /\ positions[n][1] \notin ServoIds
                        /\ \A m \in 1..(n - 1) : positions[m][1] \in ServoIds
             done == SubSeq(positions, 1, bad - 1)
         IN  /\ ret' = "ValueError"
             /\ trace' = IF done = <<>> THEN <<>>
                         ELSE _write("Goal_Position", Values(done), Keys(done), ok)
    ELSE IF positions = <<>>
    THEN /\ ret' = "None"
         /\ trace' = <<>>
    ELSE /\ ret' = _write_ret(ok)
         /\ trace' = _write("Goal_Position", Values(positions), Keys(positions), ok)

\* The body of set_position(positions): the asserts, the loop that refuses
\* an id that is not configured, and the one Goal_Position write (int() of
\* an integer position is that position).
set_position_body(positions, ok) ==
    IF ~connected \/ ~torque_enabled
    THEN /\ ret' = "AssertionError"
         /\ trace' = <<>>
    ELSE IF \E n \in 1..Len(positions) : positions[n][1] \notin ServoIds
    THEN /\ ret' = "ValueError"
         /\ trace' = <<>>
    ELSE IF positions = <<>>
    THEN /\ ret' = "None"
         /\ trace' = <<>>
    ELSE /\ ret' = _write_ret(ok)
         /\ trace' = _write("Goal_Position", Values(positions), Keys(positions), ok)

\* set_position(positions)
set_position(positions, ok) ==
    /\ op' = "set_position"
    /\ args' = <<"positions", positions>>
    /\ set_position_body(positions, ok)
    /\ UNCHANGED engine

\* get_angles(): the read, then _position_to_angle for every servo.
get_angles(vals, ok) ==
    /\ op' = "get_angles"
    /\ args' = <<>>
    /\ IF ~connected \/ ~is_calibrated
       THEN /\ ret' = "AssertionError"
            /\ trace' = <<>>
       ELSE /\ trace' = _read("Present_Position", servo_ids, vals, ok)
            /\ ret' = IF _read_ret(ok) # "None" THEN _read_ret(ok)
                      ELSE IF \E i \in ServoIds : ~HasEntry(i) THEN "KeyError"
                      ELSE "None"
    /\ UNCHANGED engine

\* set_angle that leaves the checks to set_position.
set_angle_unchecked(angles, ok) ==
    /\ op' = "set_angle"
    /\ args' = <<"angles", angles>>
    /\ IF \E n \in 1..Len(angles) :
            angles[n][1] \notin ServoIds \/ ~HasEntry(angles[n][1])
       THEN /\ ret' = "ValueError"
            /\ trace' = <<>>
       ELSE /\ ret' = _write_ret(ok)
            /\ trace' = _write("Goal_Position",
                               [n \in 1..Len(angles) |->
                                   _angle_to_position(angles[n][1], angles[n][2])],
                               Keys(angles), ok)
    /\ UNCHANGED engine

\* set_angle(angles): the loop stops at the first item it cannot convert, an
\* id that is not configured (ValueError) or a servo without a complete entry
\* in the committed set (KeyError); then set_position(positions).
set_angle(angles, ok) ==
    /\ op' = "set_angle"
    /\ args' = <<"angles", angles>>
    /\ IF ~connected \/ ~torque_enabled \/ ~is_calibrated
       THEN /\ ret' = "AssertionError"
            /\ trace' = <<>>
       ELSE IF \E n \in 1..Len(angles) :
                  angles[n][1] \notin ServoIds \/ ~HasEntry(angles[n][1])
       THEN LET bad == CHOOSE n \in 1..Len(angles) :
                          /\ angles[n][1] \notin ServoIds \/ ~HasEntry(angles[n][1])
                          /\ \A m \in 1..(n - 1) :
                                angles[m][1] \in ServoIds /\ HasEntry(angles[m][1])
            IN  /\ ret' = IF angles[bad][1] \notin ServoIds THEN "ValueError"
                          ELSE "KeyError"
                /\ trace' = <<>>
       ELSE IF angles = <<>>
       THEN /\ ret' = "None"
            /\ trace' = <<>>
       ELSE set_position_body(
                [n \in 1..Len(angles) |->
                    <<angles[n][1], _angle_to_position(angles[n][1], angles[n][2])>>],
                ok)
    /\ UNCHANGED engine

(* --------------------------------------- group transactions, step by step *)

NUM_RETRY == 10

\* SCS_CONTROL_TABLE: register name -> <<address, size in bytes>>.
SCS_CONTROL_TABLE ==
    [Torque_Enable        |-> <<40, 1>>,
     Goal_Position        |-> <<42, 2>>,
     Present_Position     |-> <<56, 2>>,
     Mode                 |-> <<33, 1>>,
     P_Coefficient        |-> <<21, 1>>,
     I_Coefficient        |-> <<23, 1>>,
     D_Coefficient        |-> <<22, 1>>,
     Lock                 |-> <<55, 1>>,
     Maximum_Acceleration |-> <<85, 2>>,
     Acceleration         |-> <<41, 1>>]

Pow256(k) == IF k = 0 THEN 1 ELSE IF k = 1 THEN 256 ELSE IF k = 2 THEN 65536
             ELSE 16777216

\* The widths _to_bytes encodes.
ByteSizes == {1, 2, 4}

\* An encoding with the high byte first.
_to_bytes_big_endian(value, size) ==
    IF size \notin ByteSizes THEN <<>>
    ELSE [k \in 1..size |-> (value \div Pow256(size - k)) % 256]

\* _to_bytes(value, size) for the sizes 1, 2 and 4: byte k is
\* (value >> 8k) & 0xFF, low byte first; >> on a negative int is the
\* arithmetic shift, the floor of the division. Any other size raises
\* ValueError and there is no list (see _to_bytes_ret).
_to_bytes(value, size) ==
    IF size \notin ByteSizes THEN <<>>
    ELSE [k \in 1..size |-> (value \div Pow256(k - 1)) % 256]

_to_bytes_ret(size) == IF size \in ByteSizes THEN "None" ELSE "ValueError"

\* servo_ids = servo_ids or self.servo_ids: no list, or an empty one, stands
\* for all configured servos (an int id is the list of that id).
EffectiveIds(ids) == IF ids = <<>> THEN servo_ids ELSE ids

\* values of _write: None (here <<>>) is [1] * len(servo_ids).
EffectiveValues(values, ids) ==
    IF values = <<>> THEN [n \in 1..Len(ids) |-> 1] ELSE values

\* No transaction has been built.
NoGroup == [kind |-> "none", addr |-> 0, size |-> 0, ids |-> <<>>, data |-> <<>>]

\* One thing done on the serial port: kind is "reset_output_buffer",
\* "reset_input_buffer", "tx" (one exchange, ok tells its outcome) or "sleep".
Pk(kind, ok) == [kind |-> kind, ok |-> ok]

Idle ==
    /\ pc = "idle"
    /\ attempt = 0
    /\ group = NoGroup
    /\ packets = <<>>
    /\ received = <<>>
    /\ result = <<>>

\* The lines of _read and _write before the retry loop: the assert, the
\* group with one parameter per id, and the one reset of both buffers, which
\* raises on a port that was closed.
Begin(g) ==
    /\ attempt' = 0
    /\ received' = <<>>
    /\ result' = <<>>
    /\ IF ~connected
       THEN /\ pc' = "raised"
            /\ ret' = "AssertionError"
            /\ group' = NoGroup
            /\ packets' = <<>>
       ELSE IF port # "open"
       THEN /\ pc' = "raised"
            /\ ret' = "SerialException"
            /\ group' = g
            /\ packets' = <<>>
       ELSE /\ pc' = "loop"
            /\ ret' = "running"
            /\ group' = g
            /\ packets' = <<Pk("reset_output_buffer", TRUE),
                            Pk("reset_input_buffer", TRUE)>>
    /\ UNCHANGED <<engine, trace>>

\* _read(data_name, servo_ids) up to its loop.
BeginRead(data_name, ids) ==
    /\ pc = "idle"
    /\ op' = "_read"
    /\ args' = <<data_name, ids>>
    /\ Begin([kind |-> "read",
              addr |-> SCS_CONTROL_TABLE[data_name][1],
              size |-> SCS_CONTROL_TABLE[data_name][2],
              ids  |-> EffectiveIds(ids),
              data |-> <<>>])

Min(a, b) == IF a <= b THEN a ELSE b

\* _write(data_name, values, servo_ids) up to its loop: zip pairs ids and
\* values up to the shorter of the two.
BeginWrite(data_name, values, ids) ==
    /\ pc = "idle"
    /\ op' = "_write"
    /\ args' = <<data_name, ids, values>>
    /\ LET eids == EffectiveIds(ids)
           vals == EffectiveValues(values, eids)
           size == SCS_CONTROL_TABLE[data_name][2]
           n    == Min(Len(eids), Len(vals))
       IN  Begin([kind |-> "write",
                  addr |-> SCS_CONTROL_TABLE[data_name][1],
                  size |-> size,
                  ids  |-> SubSeq(eids, 1, n),
                  data |-> [k \in 1..n |-> _to_bytes(vals[k], size)]])

\* A loop that runs its body once more than range(NUM_RETRY) does.
LastAttempt_one_more(a) == a = NUM_RETRY

\* for attempt in range(NUM_RETRY): the pass with attempt = NUM_RETRY - 1 is the
\* last.
LastAttempt(a) == a = NUM_RETRY - 1

\* reader.getData(id, addr, size): the value the reader holds for id.
getData(ids, data, id) == data[CHOOSE k \in 1..Len(ids) : ids[k] = id]

\* An array that lacks the value of the last id.
ReadResult_short(ids, data) ==
    [n \in 1..(Len(ids) - 1) |-> getData(ids, data, ids[n])]

\* np.array([reader.getData(id, addr, size) for id in servo_ids])
ReadResult(ids, data) == [n \in 1..Len(ids) |-> getData(ids, data, ids[n])]

\* One pass of the retry loop: txRxPacket() / txPacket() either succeeds (ok;
\* data is what the servos answered to a read), which leaves the loop and
\* returns, or fails; a failure is followed by a sleep and the next pass, or,
\* on the last pass, by the loop's else clause, which raises.
Attempt(ok, data) ==
    /\ pc = "loop"
    /\ packets' = packets \o <<Pk("tx", ok)>>
                   \o (IF ~ok /\ ~LastAttempt(attempt)
                       THEN <<Pk("sleep", TRUE)>> ELSE <<>>)
    /\ IF ok
       THEN /\ pc' = "returned"
            /\ ret' = "None"
            /\ received' = data
            /\ result' = IF group.kind = "read"
                         THEN ReadResult(group.ids, data) ELSE <<>>
            /\ UNCHANGED attempt
       ELSE IF LastAttempt(attempt)
       THEN /\ pc' = "raised"
            /\ ret' = "RuntimeError"
            /\ UNCHANGED <<attempt, received, result>>
       ELSE /\ attempt' = attempt + 1
            /\ UNCHANGED <<pc, ret, received, result>>
    /\ UNCHANGED <<engine, op, args, trace, group>>

\* The call is over, control is back at the caller.
EndCall ==
    /\ pc \in {"returned", "raised"}
    /\ pc' = "idle"
    /\ UNCHANGED <<engine, op, args, ret, trace, attempt, group, packets,
                   received, result>>

(* --------------------------------------------------------- specification *)

\* No caching controller has been constructed.
NoController ==
    /\ controller = ""
    /\ handlers = 0
    /\ port_handler = 0
    /\ _readers = EmptyDict
    /\ _writers = EmptyDict

\* No server has been started around the engine.
NoServer ==
    /\ _is_connected = FALSE
    /\ active_ws_connections = {}
    /\ broadcast_thread = "start"
    /\ handler_threads = <<>>
    /\ lifespan = "startup"
    /\ is_calibrating = FALSE
    /\ active_connections = {}
    /\ endpoints = {}
    /\ caller = ""
    /\ NoController

Init ==
    /\ store \in InitStores
    /\ calibration = _load_calibration(store)
    /\ is_calibrated = bool(calibration)
    /\ connected = FALSE
    /\ torque_enabled = FALSE
    /\ calibration_mode = FALSE
    /\ temp_calibration_data = EmptyDict
    /\ aliased = FALSE
    /\ port = "closed"
    /\ op = "__init__"
    /\ args = <<>>
    /\ ret = "None"
    /\ trace = <<>>
    /\ converted = <<>>
    /\ Idle
    /\ NoServer

\* The environment's choices are consulted only by a call that opens the port.
Connect ==
    /\ UNCHANGED <<transaction, conversion, servers>>
    /\ \/ connected /\ connect(TRUE, 0)
       \/ ~connected /\ connect(FALSE, 0)
       \/ ~connected /\ \E failAt \in 0..(NumConfigWrites + 1) : connect(TRUE, failAt)

Disconnect ==
    /\ UNCHANGED <<transaction, conversion, servers>>
    /\ \E ok \in BOOLEAN : disconnect(ok)

SetTorqueEnabled ==
    /\ UNCHANGED <<transaction, conversion, servers>>
    /\ \E enabled \in BOOLEAN, ok \in BOOLEAN : set_torque_enabled(enabled, ok)

StartCalibration ==
    /\ UNCHANGED <<transaction, conversion, servers>>
    /\ \E ok \in BOOLEAN : start_calibration(ok)

EndCalibration ==
    /\ UNCHANGED <<transaction, conversion, servers>>
    /\ \E saved \in BOOLEAN, ok \in BOOLEAN : end_calibration(saved, ok)

CancelCalibration ==
    /\ UNCHANGED <<transaction, conversion, servers>>
    /\ \E ok \in BOOLEAN : cancel_calibration(ok)

\* The sessions drawn, every servo reporting position 1 at every prompt: the
\* torque-off write of start_calibration() fails; a get_positions() fails at
\* any prompt; every prompt is read and the draft is discarded, or saved with
\* the file write succeeding or failing; each with the torque-on write
\* succeeding or failing. Inputs a path never consumes are held fixed, and a
\* session that fails the connected assert does so whatever is answered.
IterativeCalibration ==
    /\ UNCHANGED <<transaction, conversion, servers>>
    /\ \/ /\ connected
          /\ \/ iterative_calibration(FALSE, 0, 1, FALSE, FALSE, FALSE)
             \/ \E reads \in 0..(NumPrompts - 1), ok_on \in BOOLEAN :
                   iterative_calibration(TRUE, reads, 1, FALSE, FALSE, ok_on)
             \/ \E ok_on \in BOOLEAN :
                   iterative_calibration(TRUE, NumPrompts, 1, FALSE, FALSE, ok_on)
             \/ \E saved \in BOOLEAN, ok_on \in BOOLEAN :
                   iterative_calibration(TRUE, NumPrompts, 1, TRUE, saved, ok_on)
       \/ /\ ~connected
          /\ iterative_calibration(TRUE, NumPrompts, 1, TRUE, TRUE, TRUE)

\* The set_calibration_point calls drawn: every servo with every point name at
\* position 1, the first servo's zero at every position, given or read from
\* the bus (position omitted), and calls with an unknown id or a bad name.
CaptureInputs ==
    {<<id, q, <<1>>>> : id \in ServoIds, q \in Points}
    \cup {<<servo_ids[1], "zero", <<p>>>> : p \in Positions}
    \cup {<<servo_ids[1], "zero", <<>>>>}
    \cup {<<UnknownId, "zero", <<1>>>>, <<UnknownId, "zero", <<>>>>,
          <<servo_ids[1], BadPoint, <<1>>>>, <<servo_ids[1], BadPoint, <<>>>>}

\* A read that fails delivers no position; a call made outside a calibration
\* fails on its first line whatever its arguments.
SetCalibrationPoint ==
    /\ UNCHANGED <<transaction, conversion, servers>>
    /\ \/ /\ connected /\ calibration_mode
          /\ \E c \in CaptureInputs :
               IF c[3] = <<>>
               THEN \/ \E live \in Positions :
                           set_calibration_point(c[1], c[2], c[3], TRUE, live)
                    \/ set_calibration_point(c[1], c[2], c[3], FALSE, 1)
               ELSE set_calibration_point(c[1], c[2], c[3], TRUE, 1)
       \/ /\ ~(connected /\ calibration_mode)
          /\ set_calibration_point(servo_ids[1], "zero", <<1>>, TRUE, 1)

\* The answers drawn for a read of all servos: the first servo at any
\* position, the others at position 1.
ReadInputs == {LivePositions(servo_ids[1], p) : p \in Positions}

GetPositions ==
    /\ UNCHANGED <<transaction, conversion, servers>>
    /\ \/ connected /\ port = "open" /\ \E v \in ReadInputs : get_positions(v, TRUE)
       \/ get_positions(Repeat(1), FALSE)

\* The maps drawn for set_position and set_angle: the empty map, the first
\* servo alone at every value, all servos at the last value, an id that is not
\* configured alone, and that id after and before a configured one.
ItemInputs(values) ==
    LET last == CHOOSE v \in values : \A w \in values : w <= v
    IN  {<<>>, [i \in 1..NumServos |-> <<servo_ids[i], last>>],
         <<<<UnknownId, last>>>>,
         <<<<servo_ids[1], last>>, <<UnknownId, last>>>>,
         <<<<UnknownId, last>>, <<servo_ids[1], last>>>>}
        \cup {<<<<servo_ids[1], v>>>> : v \in values}

\* A call that fails an assert does so whatever its arguments.
SetPosition ==
    /\ UNCHANGED <<transaction, conversion, servers>>
    /\ \/ /\ connected /\ torque_enabled
          /\ \E m \in ItemInputs(Positions), ok \in BOOLEAN : set_position(m, ok)
       \/ /\ ~(connected /\ torque_enabled)
          /\ set_position(<<<<servo_ids[1], 1>>>>, TRUE)

GetAngles ==
    /\ UNCHANGED <<transaction, conversion, servers>>
    /\ \/ connected /\ port = "open" /\ \E v \in ReadInputs : get_angles(v, TRUE)
       \/ get_angles(Repeat(1), FALSE)

SetAngle ==
    /\ UNCHANGED <<transaction, conversion, servers>>
    /\ \/ /\ connected /\ torque_enabled /\ is_calibrated
          /\ \E m \in ItemInputs(Angles), ok \in BOOLEAN : set_angle(m, ok)
       \/ /\ ~(connected /\ torque_enabled /\ is_calibrated)
          /\ set_angle(<<<<servo_ids[1], 0>>>>, TRUE)

Next ==
    \/ Connect
    \/ Disconnect
    \/ SetTorqueEnabled
    \/ StartCalibration
    \/ EndCalibration
    \/ CancelCalibration
    \/ SetCalibrationPoint
    \/ GetPositions
    \/ SetPosition
    \/ GetAngles
    \/ SetAngle
    \/ IterativeCalibration

Spec == Init /\ [][Next]_vars

(* ------------------------------------- specification of one transaction *)

\* An engine as connect() can leave it: connected with the port open,
\* connected with the port closed again, or not connected.
BusInit ==
    /\ \E c \in {<<TRUE, "open">>, <<TRUE, "closed">>, <<FALSE, "closed">>} :
          /\ connected = c[1]
          /\ port = c[2]
    /\ torque_enabled = FALSE
    /\ calibration_mode = FALSE
    /\ temp_calibration_data = EmptyDict
    /\ calibration = EmptyDict
    /\ is_calibrated = FALSE
    /\ aliased = FALSE
    /\ store = EmptyDict
    /\ op = "connect"
    /\ args = <<>>
    /\ ret = "None"
    /\ trace = <<>>
    /\ converted = <<>>
    /\ Idle
    /\ NoServer

\* Ids on the bus: the configured ones and one more.
BusIdLists ==
    {<<>>, servo_ids, <<servo_ids[1]>>, <<servo_ids[1], UnknownId>>,
     <<UnknownId, servo_ids[1]>>}

ReadCall ==
    /\ UNCHANGED <<conversion, servers>>
    /\ \E ids \in BusIdLists : BeginRead("Present_Position", ids)

\* The writes drawn: torque to all servos by default values and default ids,
\* torque off to the listed ids, and goal positions, one more than there are
\* ids.
WriteCall ==
    /\ UNCHANGED <<conversion, servers>>
    /\ \/ BeginWrite("Torque_Enable", <<>>, <<>>)
       \/ \E ids \in BusIdLists :
             BeginWrite("Torque_Enable", [n \in 1..Len(ids) |-> 0], ids)
       \/ \E ids \in BusIdLists, p \in Positions :
             BeginWrite("Goal_Position", [n \in 1..(Len(ids) + 1) |-> p + 255], ids)

\* What the servos of the group may answer to a read.
Answers ==
    IF group.kind = "read" THEN [1..Len(group.ids) -> Positions] ELSE {<<>>}

Exchange ==
    /\ UNCHANGED <<conversion, servers>>
    /\ \/ \E data \in Answers : Attempt(TRUE, data)
       \/ Attempt(FALSE, <<>>)

Return == EndCall /\ UNCHANGED <<conversion, servers>>

BusNext ==
    \/ ReadCall
    \/ WriteCall
    \/ Exchange
    \/ Return

\* The retry loop runs in the caller's thread and every exchange returns
\* within the packet timeout, so a pass that can be made is made.
BusSpec == BusInit /\ [][BusNext]_vars /\ WF_vars(Exchange)

(* ------------------------------------------ specification of _to_bytes *)

\* The largest size a caller passes.
MaxSize == 5

\* Values a caller encodes: around the byte boundaries, the positions of a
\* 12-bit servo, and negative ones.
ByteValues ==
    {-65537, -65536, -257, -256, -1, 0, 1, 127, 128, 255, 256, 257, 2048, 4095,
     65535, 65536, 65537, 16777215, 16777216, 16777217, 2147483647}

\* A call of _to_bytes(value, size) of Servos or of ServoController (the two
\* bodies are the same).
ToBytes ==
    /\ \E v \in ByteValues, size \in 0..MaxSize :
          /\ op' = "_to_bytes"
          /\ args' = <<v, size>>
          /\ converted' = _to_bytes(v, size)
          /\ ret' = _to_bytes_ret(size)
    /\ trace' = <<>>
    /\ UNCHANGED <<engine, transaction, servers>>

BytesNext == ToBytes

BytesSpec == Init /\ [][BytesNext]_vars

(* ------------------------------------ specification of the angle mapping *)

\* The positions a committed entry may hold.
CalPositions == 0..MaxCal

\* Angles a caller commands, in degrees: those of test_angle_conversion that
\* are multiples of 15, and their extension to [-180, 180].
WideAngles == {-180, -135, -90, -45, -30, -15, 0, 15, 30, 45, 90, 135, 180}

\* An id whose entry in the calibration file is that of the first servo
\* with min and max exchanged (the same joint, mounted the other way round).
MirrorId == NumServos + 1

Entry(zero, min_pos, max_pos) ==
    [q \in Points |-> IF q = "zero" THEN zero
                      ELSE IF q = "min" THEN min_pos ELSE max_pos]

\* The triples <<zero, min, max>> drawn: every one over CalPositions, and a
\* servo of 4096 steps centred at 2048 with a quarter turn to each side,
\* mounted either way round.
CalTriples ==
    (CalPositions \X CalPositions \X CalPositions)
    \cup {<<2048, 1024, 3072>>, <<2048, 3072, 1024>>}

\* The positions test_angle_conversion and calibrate.py convert back: the
\* three calibration points and the middle of each side.
TestPositions(servo_id) ==
    LET zero    == calibration[str(servo_id)]["zero"]
        min_pos == calibration[str(servo_id)]["min"]
        max_pos == calibration[str(servo_id)]["max"]
    IN  {zero, min_pos, max_pos,
         TruncDiv(2 * zero + (max_pos - zero), 2),
         TruncDiv(2 * zero + (min_pos - zero), 2)}

\* A connected, calibrated engine with torque on, as connect() leaves it
\* when data/calibration.json holds complete entries.
AngleInit ==
    /\ \E t \in CalTriples :
          calibration = [k \in {str(servo_ids[1]), str(MirrorId)} |->
                            IF k = str(servo_ids[1])
                            THEN Entry(t[1], t[2], t[3])
                            ELSE Entry(t[1], t[3], t[2])]
    /\ store = calibration
    /\ is_calibrated = TRUE
    /\ connected = TRUE
    /\ port = "open"
    /\ torque_enabled = TRUE
    /\ calibration_mode = FALSE
    /\ temp_calibration_data = EmptyDict
    /\ aliased = FALSE
    /\ op = "connect"
    /\ args = <<>>
    /\ ret = "None"
    /\ trace = <<>>
    /\ converted = <<>>
    /\ Idle
    /\ NoServer

\* A call of _angle_to_position(servo_id, angle).
AngleToPosition ==
    /\ \E servo_id \in {servo_ids[1], MirrorId}, angle \in WideAngles :
          /\ op' = "_angle_to_position"
          /\ args' = <<servo_id, angle>>
          /\ converted' = <<_angle_to_position(servo_id, angle)>>
    /\ ret' = "None"
    /\ trace' = <<>>
    /\ UNCHANGED <<engine, transaction, servers>>

\* A call of _position_to_angle(servo_id, position).
PositionToAngle ==
    /\ \E position \in CalPositions \cup TestPositions(servo_ids[1]) :
          /\ op' = "_position_to_angle"
          /\ args' = <<servo_ids[1], position>>
          /\ converted' = _position_to_angle(servo_ids[1], position)
    /\ ret' = "None"
    /\ trace' = <<>>
    /\ UNCHANGED <<engine, transaction, servers>>

\* One row of test_angle_conversion: position = _angle_to_position(angle),
\* back_angle = _position_to_angle(position); converted is <<position>> followed
\* by back_angle.
TestAngleConversion ==
    /\ \E angle \in WideAngles :
          LET position == _angle_to_position(servo_ids[1], angle)
              back_angle == _position_to_angle(servo_ids[1], position)
          IN  /\ op' = "test_angle_conversion"
              /\ args' = <<servo_ids[1], angle>>
              /\ converted' = <<position>> \o back_angle
    /\ ret' = "None"
    /\ trace' = <<>>
    /\ UNCHANGED <<engine, transaction, servers>>

\* set_angle({servo: angle}) for one servo.
SetOneAngle ==
    /\ \E angle \in WideAngles, ok \in BOOLEAN :
          set_angle(<<<<servo_ids[1], angle>>>>, ok)
    /\ converted' = <<>>
    /\ UNCHANGED <<transaction, servers>>

\* A call of ServoController._angle_to_position(angle, servo_id) on a
\* controller holding the same calibration entries.
ControllerAngleToPosition ==
    /\ \E servo_id \in {servo_ids[1], MirrorId}, angle \in WideAngles :
          /\ op' = "ServoController._angle_to_position"
          /\ args' = <<angle, servo_id>>
          /\ converted' = <<ServoController_angle_to_position(angle, servo_id)>>
    /\ ret' = "None"
    /\ trace' = <<>>
    /\ UNCHANGED <<engine, transaction, servers>>

\* A call of ServoController._position_to_angle(position, servo_id).
ControllerPositionToAngle ==
    /\ \E servo_id \in {servo_ids[1], MirrorId},
          position \in CalPositions \cup TestPositions(servo_ids[1]) :
          LET angle == ServoController_position_to_angle(position, servo_id)
          IN  /\ op' = "ServoController._position_to_angle"
              /\ args' = <<position, servo_id>>
              /\ converted' = IF angle[2] = 0 THEN <<>> ELSE angle
              /\ ret' = IF angle[2] = 0 THEN "ZeroDivisionError" ELSE "None"
    /\ trace' = <<>>
    /\ UNCHANGED <<engine, transaction, servers>>

AngleNext ==
    \/ AngleToPosition
    \/ PositionToAngle
    \/ TestAngleConversion
    \/ SetOneAngle
    \/ ControllerAngleToPosition
    \/ ControllerPositionToAngle

AngleSpec == AngleInit /\ [][AngleNext]_vars

(* ------------------------------------------ specification of api/server.py *)

\* Websocket clients of the server.
Clients == 1..NumClients

\* The engine and the record of its last call stay as they are.
NoEngineCall == UNCHANGED <<engine, op, args, ret, trace, caller>>

\* get_angles() with the answers the bus may give.
ReadAngles ==
    \/ connected /\ port = "open" /\ \E v \in ReadInputs : get_angles(v, TRUE)
    \/ get_angles(Repeat(1), FALSE)

\* The coroutine of client c ends: manager.disconnect(websocket) in the
\* finally clause.
Drop(c) ==
    /\ active_connections' = active_connections \ {c}
    /\ endpoints' = endpoints \ {c}

\* lifespan(): Servos(), connect(), and the broadcast task when connect()
\* did not raise.
Lifespan ==
    /\ lifespan = "startup"
    /\ \/ connect(FALSE, 0)
       \/ \E failAt \in 0..(NumConfigWrites + 1) : connect(TRUE, failAt)
    /\ caller' = "lifespan"
    /\ lifespan' = IF ret' = "None" THEN "task" ELSE "no_task"
    /\ UNCHANGED <<is_calibrating, active_connections, endpoints>>
    /\ UNCHANGED <<transaction, conversion, ui, cache>>

\* websocket_endpoint up to its receive loop: manager.connect, then the
\* initial get_angles() when the engine is connected; an exception of that
\* call ends the coroutine.
WebsocketConnect ==
    /\ lifespan # "startup"
    /\ \E c \in Clients \ (endpoints \cup active_connections) :
          IF connected
          THEN /\ ReadAngles
               /\ caller' = "websocket_endpoint"
               /\ IF ret' = "None"
                  THEN /\ active_connections' = active_connections \cup {c}
                       /\ endpoints' = endpoints \cup {c}
                  ELSE UNCHANGED <<active_connections, endpoints>>
          ELSE /\ NoEngineCall
               /\ active_connections' = active_connections \cup {c}
               /\ endpoints' = endpoints \cup {c}
    /\ UNCHANGED <<lifespan, is_calibrating>>
    /\ UNCHANGED <<transaction, conversion, ui, cache>>

\* Clients whose coroutine waits in receive_text() on an open connection.
Receiving == endpoints \cap active_connections

\* A 'start_calibration' message: the flag first, then start_calibration()
\* inside try/except when the engine is connected.
StartCalibrationMessage ==
    /\ Receiving # {}
    /\ is_calibrating' = TRUE
    /\ IF connected
       THEN /\ \E ok \in BOOLEAN : start_calibration(ok)
            /\ caller' = "websocket_endpoint"
       ELSE NoEngineCall
    /\ UNCHANGED <<lifespan, active_connections, endpoints>>
    /\ UNCHANGED <<transaction, conversion, ui, cache>>

\* A 'capture_position' message on a connected engine:
\* get_positions()[servo_id], then set_calibration_point(servo_id, point,
\* current_pos); an exception of either call ends the coroutine.
CapturePositionMessage ==
    /\ connected
    /\ \E c \in Receiving, servo_id \in ServoIds, point_name \in Points,
          live \in Positions, ok \in BOOLEAN :
          /\ IF _read_ret(ok) # "None"
             THEN get_positions(LivePositions(servo_id, live), ok)
             ELSE set_calibration_point(servo_id, point_name, <<live>>, TRUE, live)
          /\ IF ret' = "None"
             THEN UNCHANGED <<active_connections, endpoints>>
             ELSE Drop(c)
    /\ caller' = "websocket_endpoint"
    /\ UNCHANGED <<lifespan, is_calibrating>>
    /\ UNCHANGED <<transaction, conversion, ui, cache>>

\* An 'end_calibration' message while the flag is set: the flag is cleared,
\* end_calibration() is called, and servo_controller.enable_torque(), which
\* Servos does not have, raises AttributeError when end_calibration() did
\* not raise before; the coroutine ends either way.
EndCalibrationMessage ==
    /\ is_calibrating /\ connected
    /\ \E c \in Receiving :
          /\ \E saved \in BOOLEAN, ok \in BOOLEAN : end_calibration(saved, ok)
          /\ Drop(c)
    /\ is_calibrating' = FALSE
    /\ caller' = "websocket_endpoint"
    /\ UNCHANGED lifespan
    /\ UNCHANGED <<transaction, conversion, ui, cache>>

\* receive_text() raises WebSocketDisconnect: the flag is cleared and the
\* connection removed; the engine is not called.
ClientDisconnect ==
    /\ \E c \in endpoints : Drop(c)
    /\ is_calibrating' = FALSE
    /\ NoEngineCall
    /\ UNCHANGED lifespan
    /\ UNCHANGED <<transaction, conversion, ui, cache>>

\* One pass of the loop of broadcast_positions() that gets through its
\* condition: get_angles(), and manager.broadcast, which removes the
\* connections it cannot send to.
BroadcastPositions ==
    /\ lifespan = "task"
    /\ active_connections # {} /\ connected /\ ~is_calibrating
    /\ ReadAngles
    /\ caller' = "broadcast_positions"
    /\ \E dead \in SUBSET active_connections :
          /\ ret' = "None" \/ dead = {}
          /\ active_connections' = active_connections \ dead
    /\ UNCHANGED <<lifespan, is_calibrating, endpoints>>
    /\ UNCHANGED <<transaction, conversion, ui, cache>>

ApiNext ==
    \/ Lifespan
    \/ WebsocketConnect
    \/ StartCalibrationMessage
    \/ CapturePositionMessage
    \/ EndCalibrationMessage
    \/ ClientDisconnect
    \/ BroadcastPositions

ApiSpec == Init /\ [][ApiNext]_vars

(* ------------------------------------------- specification of ui/server.py *)

\* Request threads of the threaded server (app.run(threaded=True)).
Handlers == 1..NumHandlers

\* Nothing but the threads of ui/server.py moves.
OnlyUi ==
    UNCHANGED <<engine, op, args, ret, trace, transaction, conversion, api, cache>>

\* main() before the threads start: ServoController.connect() succeeded, or
\* the server runs in simulation mode with _is_connected = False.
UiInit ==
    /\ _is_connected \in BOOLEAN
    /\ active_ws_connections = {}
    /\ broadcast_thread = "start"
    /\ handler_threads = [h \in Handlers |-> "idle"]
    /\ lifespan = "startup"
    /\ is_calibrating = FALSE
    /\ active_connections = {}
    /\ endpoints = {}
    /\ caller = ""
    /\ NoController
    /\ connected = FALSE
    /\ port = "closed"
    /\ torque_enabled = FALSE
    /\ calibration_mode = FALSE
    /\ temp_calibration_data = EmptyDict
    /\ calibration = EmptyDict
    /\ is_calibrated = FALSE
    /\ aliased = FALSE
    /\ store = EmptyDict
    /\ op = "__init__"
    /\ args = <<>>
    /\ ret = "None"
    /\ trace = <<>>
    /\ converted = <<>>
    /\ Idle

\* Positions of a thread inside ServoController._read or ._write, between
\* the call and its return or its RuntimeError.
InTransaction ==
    {"init_read", "read", "ws_read", "ws_write", "update_write", "update_read"}

\* broadcast_positions() before its loop: get_angles() when connected.
BroadcastStart ==
    /\ broadcast_thread = "start"
    /\ broadcast_thread' = IF _is_connected THEN "init_read" ELSE "loop"
    /\ UNCHANGED <<_is_connected, active_ws_connections, handler_threads>>
    /\ OnlyUi

\* That get_angles() returns, or raises outside the try of the loop, which
\* ends the thread.
BroadcastStartDone ==
    /\ broadcast_thread = "init_read"
    /\ \E ok \in BOOLEAN : broadcast_thread' = IF ok THEN "loop" ELSE "dead"
    /\ UNCHANGED <<_is_connected, active_ws_connections, handler_threads>>
    /\ OnlyUi

\* A pass of the loop with a websocket open and the controller connected
\* calls get_angles().
BroadcastPoll ==
    /\ broadcast_thread = "loop"
    /\ active_ws_connections # {} /\ _is_connected
    /\ broadcast_thread' = "read"
    /\ UNCHANGED <<_is_connected, active_ws_connections, handler_threads>>
    /\ OnlyUi

\* get_angles() returns or raises; the pass sends, sleeps and loops.
BroadcastPollDone ==
    /\ broadcast_thread = "read"
    /\ broadcast_thread' = "loop"
    /\ UNCHANGED <<_is_connected, active_ws_connections, handler_threads>>
    /\ OnlyUi

\* websocket(ws): the connection is added, then get_angles() when connected.
WebsocketOpen ==
    /\ \E h \in Handlers :
          /\ handler_threads[h] = "idle"
          /\ active_ws_connections' = active_ws_connections \cup {h}
          /\ handler_threads' = [handler_threads EXCEPT ![h] =
                                    IF _is_connected THEN "ws_read" ELSE "ws_receive"]
    /\ UNCHANGED <<_is_connected, broadcast_thread>>
    /\ OnlyUi

\* The initial get_angles() returns or raises (logged); the receive loop
\* starts.
WebsocketOpenDone ==
    /\ \E h \in Handlers :
          /\ handler_threads[h] = "ws_read"
          /\ handler_threads' = [handler_threads EXCEPT ![h] = "ws_receive"]
    /\ UNCHANGED <<_is_connected, active_ws_connections, broadcast_thread>>
    /\ OnlyUi

\* A 'servo_update' or 'center_all' message on a connected controller:
\* move(), that is one Goal_Position write.
WebsocketMessage ==
    /\ _is_connected
    /\ \E h \in Handlers :
          /\ handler_threads[h] = "ws_receive"
          /\ handler_threads' = [handler_threads EXCEPT ![h] = "ws_write"]
    /\ UNCHANGED <<_is_connected, active_ws_connections, broadcast_thread>>
    /\ OnlyUi

\* The write returns or raises (answered with an error message); the loop
\* goes on.
WebsocketMessageDone ==
    /\ \E h \in Handlers :
          /\ handler_threads[h] = "ws_write"
          /\ handler_threads' = [handler_threads EXCEPT ![h] = "ws_receive"]
    /\ UNCHANGED <<_is_connected, active_ws_connections, broadcast_thread>>
    /\ OnlyUi

\* The client closes: the connection is removed in the finally clause.
WebsocketClose ==
    /\ \E h \in Handlers :
          /\ handler_threads[h] = "ws_receive"
          /\ active_ws_connections' = active_ws_connections \ {h}
          /\ handler_threads' = [handler_threads EXCEPT ![h] = "idle"]
    /\ UNCHANGED <<_is_connected, broadcast_thread>>
    /\ OnlyUi

\* update_servo() on a connected controller: move().
UpdateServo ==
    /\ _is_connected
    /\ \E h \in Handlers :
          /\ handler_threads[h] = "idle"
          /\ handler_threads' = [handler_threads EXCEPT ![h] = "update_write"]
    /\ UNCHANGED <<_is_connected, active_ws_connections, broadcast_thread>>
    /\ OnlyUi

\* move() returns and the handler sleeps 50 ms, or it raises and the
\* request is answered with status 500.
UpdateServoMoved ==
    /\ \E h \in Handlers, ok \in BOOLEAN :
          /\ handler_threads[h] = "update_write"
          /\ handler_threads' = [handler_threads EXCEPT ![h] =
                                    IF ok THEN "update_sleep" ELSE "idle"]
    /\ UNCHANGED <<_is_connected, active_ws_connections, broadcast_thread>>
    /\ OnlyUi

\* After the sleep: get_angles() to read the position back when the servo
\* name is known, the response otherwise.
UpdateServoReadBack ==
    /\ \E h \in Handlers, known \in BOOLEAN :
          /\ handler_threads[h] = "update_sleep"
          /\ handler_threads' = [handler_threads EXCEPT ![h] =
                                    IF known THEN "update_read" ELSE "idle"]
    /\ UNCHANGED <<_is_connected, active_ws_connections, broadcast_thread>>
    /\ OnlyUi

\* get_angles() returns or raises; the request is answered.
UpdateServoDone ==
    /\ \E h \in Handlers :
          /\ handler_threads[h] = "update_read"
          /\ handler_threads' = [handler_threads EXCEPT ![h] = "idle"]
    /\ UNCHANGED <<_is_connected, active_ws_connections, broadcast_thread>>
    /\ OnlyUi

UiNext ==
    \/ BroadcastStart
    \/ BroadcastStartDone
    \/ BroadcastPoll
    \/ BroadcastPollDone
    \/ WebsocketOpen
    \/ WebsocketOpenDone
    \/ WebsocketMessage
    \/ WebsocketMessageDone
    \/ WebsocketClose
    \/ UpdateServo
    \/ UpdateServoMoved
    \/ UpdateServoReadBack
    \/ UpdateServoDone

UiSpec == UiInit /\ [][UiNext]_vars

(* -------------------------------- specification of the caching controllers *)

\* group_key = f"{data_name}_{'_'.join(map(str, servo_ids))}", as the pair of
\* its parts. The reads and writes drawn address all servos or the first.
ReadKeys ==
    {<<"Present_Position", servo_ids>>, <<"Present_Position", <<servo_ids[1]>>>>}

WriteKeys ==
    {<<"Torque_Enable", servo_ids>>, <<"Goal_Position", servo_ids>>,
     <<"Goal_Position", <<servo_ids[1]>>>>}

\* The writers configure_servos() leaves in the cache.
ConfigKeys ==
    {<<"Torque_Enable", servo_ids>>}
    \cup {<<reg, <<i>>>> :
            reg \in {"Mode", "P_Coefficient", "I_Coefficient", "D_Coefficient",
                     "Lock", "Maximum_Acceleration", "Acceleration"},
            i \in ServoIds}

\* A disconnect that leaves the cache as it is.
ClearedCache_kept(builders) == builders

\* self._readers = {} / self.group_readers = {} in disconnect().
ClearedCache(builders) == EmptyDict

\* "if group_key not in cache: cache[group_key] = Group...(self.port_handler,
\* ...)": a builder keeps the port handler it was built with.
Cached(builders, group_key, handler) ==
    IF group_key \in DOMAIN builders THEN builders
    ELSE DictSet(builders, group_key, handler)

\* Nothing but the controller moves.
OnlyController ==
    UNCHANGED <<engine, trace, transaction, conversion, api, controller,
                active_ws_connections, broadcast_thread, handler_threads>>

\* ServoController() connects and configures in its constructor;
\* FeetechController() does neither.
ControllerInit ==
    /\ controller \in {"ServoController", "FeetechController"}
    /\ IF controller = "ServoController"
       THEN /\ _is_connected = TRUE
            /\ handlers = 1
            /\ port_handler = 1
            /\ _writers = [k \in ConfigKeys |-> 1]
       ELSE /\ _is_connected = FALSE
            /\ handlers = 0
            /\ port_handler = 0
            /\ _writers = EmptyDict
    /\ _readers = EmptyDict
    /\ active_ws_connections = {}
    /\ broadcast_thread = "start"
    /\ handler_threads = <<>>
    /\ lifespan = "startup"
    /\ is_calibrating = FALSE
    /\ active_connections = {}
    /\ endpoints = {}
    /\ caller = ""
    /\ connected = FALSE
    /\ port = "closed"
    /\ torque_enabled = FALSE
    /\ calibration_mode = FALSE
    /\ temp_calibration_data = EmptyDict
    /\ calibration = EmptyDict
    /\ is_calibrated = FALSE
    /\ aliased = FALSE
    /\ store = EmptyDict
    /\ op = "__init__"
    /\ args = <<>>
    /\ ret = "None"
    /\ trace = <<>>
    /\ converted = <<>>
    /\ Idle

\* connect(): a new PortHandler, then openPort(). ServoController returns
\* when it is connected already and keeps the handler when the port does not
\* open; FeetechController raises when connected and drops the handler.
ControllerConnect ==
    /\ op' = "connect"
    /\ args' = <<>>
    /\ IF _is_connected
       THEN /\ ret' = IF controller = "ServoController" THEN "None"
                      ELSE "DeviceAlreadyConnectedError"
            /\ UNCHANGED <<_is_connected, handlers, port_handler>>
       ELSE /\ handlers < MaxHandlers
            /\ handlers' = handlers + 1
            /\ \E opened \in BOOLEAN :
                  /\ _is_connected' = opened
                  /\ ret' = IF opened THEN "None" ELSE "OSError"
                  /\ port_handler' = IF opened \/ controller = "ServoController"
                                     THEN handlers' ELSE 0
    /\ UNCHANGED <<_readers, _writers>>
    /\ OnlyController

\* disconnect(): ServoController writes torque off first (a write that may
\* raise and that caches its writer) and returns at once when it is not
\* connected; FeetechController raises when it is not connected. Both close
\* the port, empty both caches and clear the flag.
ControllerDisconnect ==
    /\ op' = "disconnect"
    /\ args' = <<>>
    /\ IF ~_is_connected
       THEN /\ ret' = IF controller = "ServoController" THEN "None"
                      ELSE "DeviceNotConnectedError"
            /\ UNCHANGED <<_is_connected, port_handler, _readers, _writers>>
       ELSE \E ok \in BOOLEAN :
               IF controller = "ServoController" /\ ~ok
               THEN /\ ret' = "RuntimeError"
                    /\ _writers' = Cached(_writers, <<"Torque_Enable", servo_ids>>,
                                          port_handler)
                    /\ UNCHANGED <<_is_connected, port_handler, _readers>>
               ELSE /\ ret' = "None"
                    /\ _readers' = ClearedCache(_readers)
                    /\ _writers' = ClearedCache(_writers)
                    /\ _is_connected' = FALSE
                    /\ port_handler' = IF controller = "ServoController"
                                       THEN port_handler ELSE 0
    /\ UNCHANGED handlers
    /\ OnlyController

\* What precedes the cache lookup in _read and _write: ServoController
\* connects when it is not connected, FeetechController raises. The result is
\* <<outcome, _is_connected, handlers, port_handler>>.
BeforeLookup(opened) ==
    IF _is_connected THEN <<"None", TRUE, handlers, port_handler>>
    ELSE IF controller = "FeetechController"
    THEN <<"DeviceNotConnectedError", FALSE, handlers, port_handler>>
    ELSE IF opened THEN <<"None", TRUE, handlers + 1, handlers + 1>>
    ELSE <<"OSError", FALSE, handlers + 1, handlers + 1>>

\* _read(data_name, servo_ids) / read(...): the reader of the group key is
\* built when the cache lacks it, then used for the exchange; args records
\* the port handler of the reader used.
ControllerRead ==
    /\ op' = "_read"
    /\ \E group_key \in ReadKeys, opened \in BOOLEAN, ok \in BOOLEAN :
          LET before == BeforeLookup(opened)
          IN  /\ _is_connected \/ controller = "FeetechController"
                    \/ handlers < MaxHandlers
              /\ _is_connected' = before[2]
              /\ handlers' = before[3]
              /\ port_handler' = before[4]
              /\ IF before[1] # "None"
                 THEN /\ ret' = before[1]
                      /\ args' = <<group_key[1], group_key[2], 0>>
                      /\ UNCHANGED _readers
                 ELSE /\ _readers' = Cached(_readers, group_key, before[4])
                      /\ args' = <<group_key[1], group_key[2], _readers'[group_key]>>
                      /\ ret' = IF ok THEN "None" ELSE "RuntimeError"
    /\ UNCHANGED _writers
    /\ OnlyController

\* _write(data_name, values, servo_ids) / write(...), likewise.
ControllerWrite ==
    /\ op' = "_write"
    /\ \E group_key \in WriteKeys, opened \in BOOLEAN, ok \in BOOLEAN :
          LET before == BeforeLookup(opened)
          IN  /\ _is_connected \/ controller = "FeetechController"
                    \/ handlers < MaxHandlers
              /\ _is_connected' = before[2]
              /\ handlers' = before[3]
              /\ port_handler' = before[4]
              /\ IF before[1] # "None"
                 THEN /\ ret' = before[1]
                      /\ args' = <<group_key[1], group_key[2], 0>>
                      /\ UNCHANGED _writers
                 ELSE /\ _writers' = Cached(_writers, group_key, before[4])
                      /\ args' = <<group_key[1], group_key[2], _writers'[group_key]>>
                      /\ ret' = IF ok THEN "None" ELSE "RuntimeError"
    /\ UNCHANGED _readers
    /\ OnlyController

ControllerNext ==
    \/ ControllerConnect
    \/ ControllerDisconnect
    \/ ControllerRead
    \/ ControllerWrite

ControllerSpec == ControllerInit /\ [][ControllerNext]_vars

(* ---------------------------------------------------------------- claims *)

\* C1: in every reachable state, calibration mode InProgress implies torque
\* disabled.
C1_CalibrationImpliesTorqueOff == calibration_mode => ~torque_enabled

\* C2: in every reachable state, torque enabled implies connected, also after
\* disconnect() and after calls whose bus write failed.
C2_TorqueImpliesConnected == torque_enabled => connected

\* C2's case: a disconnect() whose torque-off write exhausted its retries.
C2_Witness ==
    /\ op = "disconnect"
    /\ ret = "RuntimeError"
    /\ torque_enabled
    /\ connected

\* The draft holds zero, min and max for every configured servo id.
HoldsAllPoints(d) ==
    \A i \in ServoIds :
        /\ str(i) \in DOMAIN d
        /\ \A q \in Points : q \in DOMAIN d[str(i)]

\* The call's activity includes a write of the calibration file.
Saved(t) == \E n \in 1..Len(t) : t[n].kind = "save"

\* The call's activity includes a Torque_Enable = 0 write to all servos.
TorqueOffWritten(t) ==
    \E n \in 1..Len(t) :
        /\ t[n].kind = "write"
        /\ t[n].reg = "Torque_Enable"
        /\ t[n].ids = servo_ids
        /\ t[n].vals = Repeat(0)

\* This step is an end_calibration() call made with an incomplete draft.
EndIncompleteStep ==
    /\ op' = "end_calibration"
    /\ calibration_mode
    /\ ~HoldsAllPoints(temp_calibration_data)

\* C3: the committed set is changed only by an end_calibration() call whose
\* draft holds all three points of every servo; no other call changes it
\* (stated for an engine whose port is open).
C3_CommittedChangedOnlyByCompleteEnd ==
    [][(port = "open" /\ calibration' # calibration) =>
          /\ op' = "end_calibration"
          /\ calibration_mode
          /\ HoldsAllPoints(temp_calibration_data)]_vars

\* C4: end_calibration() with a draft in which some servo lacks some point
\* leaves the committed set and is_calibrated unchanged and writes nothing to
\* the calibration file.
C4_IncompleteEndChangesNothing ==
    [][(op' = "end_calibration" /\ ~HoldsAllPoints(temp_calibration_data)) =>
          /\ calibration' = calibration
          /\ is_calibrated' = is_calibrated
          /\ store' = store
          /\ ~Saved(trace')]_vars

\* C4's case: an end_calibration() that returned with a draft that has keys
\* for every servo but not every point, next to a committed set.
C4_Witness ==
    /\ op = "end_calibration"
    /\ ret = "None"
    /\ ~calibration_mode
    /\ DOMAIN temp_calibration_data = {str(i) : i \in ServoIds}
    /\ ~HoldsAllPoints(temp_calibration_data)
    /\ is_calibrated
    /\ calibration = store

\* C5: what end_calibration() returns for an incomplete draft differs from
\* what it returns after a successful commit (it falls off its end there:
\* None).
C5_IncompleteOutcomeDistinct ==
    [][EndIncompleteStep => ret' # "None"]_vars

C8_IncompleteEndStaysInProgress ==
    [][EndIncompleteStep =>
          /\ calibration_mode'
          /\ temp_calibration_data' = temp_calibration_data]_vars

\* C8 amended: after end_calibration() finds the draft incomplete the engine
\* has left calibration mode with the captured points still in the draft;
\* outside calibration mode set_calibration_point fails and leaves the draft
\* as it is, and start_calibration() empties it.
C8_IncompleteEndLeavesCalibration ==
    [][/\ EndIncompleteStep =>
            /\ ~calibration_mode'
            /\ temp_calibration_data' = temp_calibration_data
       /\ (op' = "set_calibration_point" /\ ~calibration_mode) =>
            /\ ret' = "AssertionError"
            /\ temp_calibration_data' = temp_calibration_data
       /\ (op' = "start_calibration" /\ connected /\ ~calibration_mode) =>
            /\ calibration_mode'
            /\ temp_calibration_data' = EmptyDict]_vars

\* C8's case: a capture refused after an incomplete end, the points captured
\* before still in the draft.
C8_Witness ==
    /\ op = "set_calibration_point"
    /\ ret = "AssertionError"
    /\ connected
    /\ ~calibration_mode
    /\ bool(temp_calibration_data)
    /\ ~HoldsAllPoints(temp_calibration_data)

\* C9: after end_calibration() finds the draft incomplete the engine is
\* connected, with torque off and calibration mode Idle.
C9_IncompleteEndConnectedTorqueOff ==
    [][EndIncompleteStep =>
          /\ connected'
          /\ ~torque_enabled'
          /\ ~calibration_mode']_vars

\* C10 as claimed: start_calibration() changes nothing and writes nothing
\* during a calibration; connected (the port open) and Idle it empties the
\* draft, writes torque off and enters calibration mode; not connected it
\* fails and changes nothing.
C10_StartCalibrationWritesTorqueOff ==
    [][op' = "start_calibration" =>
          /\ calibration_mode => (UNCHANGED engine /\ trace' = <<>>)
          /\ (connected /\ port = "open" /\ ~calibration_mode) =>
                /\ temp_calibration_data' = EmptyDict
                /\ calibration_mode'
                /\ TorqueOffWritten(trace')
          /\ ~connected => (ret' # "None" /\ UNCHANGED engine)]_vars

\* C10 amended: as claimed, except that connected and Idle the torque-off
\* write is made exactly when torque was enabled (no bus activity otherwise),
\* and torque is off when the call returns normally.
C10_StartCalibration ==
    [][op' = "start_calibration" =>
          /\ calibration_mode => (UNCHANGED engine /\ trace' = <<>>)
          /\ (connected /\ ~calibration_mode) =>
                /\ temp_calibration_data' = EmptyDict
                /\ calibration_mode'
                /\ TorqueOffWritten(trace') <=> torque_enabled
                /\ ~torque_enabled => trace' = <<>>
                /\ ret' = "None" => ~torque_enabled'
          /\ ~connected => (ret' # "None" /\ UNCHANGED engine)]_vars

\* C10's case: a start_calibration() that released torque over the bus and
\* entered calibration mode with an empty draft.
C10_Witness ==
    /\ op = "start_calibration"
    /\ ret = "None"
    /\ TorqueOffWritten(trace)
    /\ calibration_mode
    /\ ~torque_enabled
    /\ temp_calibration_data = EmptyDict

\* The draft d holds point q of servo i.
Has(d, i, q) == str(i) \in DOMAIN d /\ q \in DOMAIN d[str(i)]

\* Draft after has position pos at point q of servo i and is otherwise the
\* draft before: same servos apart from i's key, same points, same values.
StoredOnly(before, after, i, q, pos) ==
    /\ Has(after, i, q)
    /\ after[str(i)][q] = pos
    /\ DOMAIN after = DOMAIN before \cup {str(i)}
    /\ \A j \in ServoIds, r \in Points :
          (j # i \/ r # q) =>
              /\ Has(after, j, r) <=> Has(before, j, r)
              /\ Has(before, j, r) => after[str(j)][r] = before[str(j)][r]

\* The position the call used: the one given or, when omitted, the one its
\* bus read delivered for the servo.
UsedPosition(servo_id, position, t) ==
    IF position = <<>>
    THEN t[1].vals[CHOOSE n \in 1..NumServos : servo_ids[n] = servo_id]
    ELSE position[1]

\* A capture that must be refused: outside a calibration, for an id that is
\* not configured, or for a name that is not zero, min or max.
Refused(servo_id, point_name) ==
    \/ ~calibration_mode
    \/ servo_id \notin ServoIds
    \/ point_name \notin Points

\* C11 as claimed: set_calibration_point fails with no bus activity and leaves
\* the draft when it must be refused; every other call (on a connected engine
\* whose port is open) stores the position given, or the one read from the
\* bus, and changes no other draft entry.
C11_CaptureStoresOtherwise ==
    [][(op' = "set_calibration_point" /\ connected /\ port = "open") =>
          IF Refused(args'[1], args'[2])
          THEN /\ ret' # "None"
               /\ trace' = <<>>
               /\ temp_calibration_data' = temp_calibration_data
          ELSE /\ ret' = "None"
               /\ StoredOnly(temp_calibration_data, temp_calibration_data',
                             args'[1], args'[2],
                             UsedPosition(args'[1], args'[3], trace'))]_vars

\* C11 amended: a refused capture fails with no bus activity and leaves the
\* draft; every call that fails leaves the draft, among them the capture
\* whose position read exhausted its retries; a call that returns normally
\* has stored the position given, or the one its read delivered, at that
\* servo and point and changed no other draft entry, and only a call without
\* a position reads the bus.
C11_CaptureStoresOnReturn ==
    [][op' = "set_calibration_point" =>
          /\ Refused(args'[1], args'[2]) =>
                /\ ret' # "None"
                /\ trace' = <<>>
          /\ ret' # "None" => temp_calibration_data' = temp_calibration_data
          /\ ret' = "None" =>
                /\ ~Refused(args'[1], args'[2])
                /\ (trace' = <<>>) <=> (args'[3] # <<>>)
                /\ StoredOnly(temp_calibration_data, temp_calibration_data',
                              args'[1], args'[2],
                              UsedPosition(args'[1], args'[3], trace'))]_vars

\* C11's case: a capture without a position stored what the bus read
\* delivered next to a point captured before.
C11_Witness ==
    /\ op = "set_calibration_point"
    /\ ret = "None"
    /\ Len(trace) = 1
    /\ trace[1].kind = "read"
    /\ trace[1].vals[1] = MaxPos
    /\ Has(temp_calibration_data, servo_ids[1], "zero")
    /\ temp_calibration_data[str(servo_ids[1])]["zero"] = MaxPos
    /\ Has(temp_calibration_data, servo_ids[1], "min")

\* The call's activity holds, in order, the seven configuration writes of
\* every configured servo: mode, P, I, D, lock, maximum acceleration and
\* acceleration, each to that servo alone and each successful.
ConfigWritten(t) ==
    /\ Len(t) >= 1 + NumConfigWrites
    /\ \A n \in 1..NumConfigWrites : t[n + 1] = ConfigWrite(n, TRUE)

\* Position of the first entry of kind k in t, 0 when there is none.
FirstOf(t, k) ==
    IF \E n \in 1..Len(t) : t[n].kind = k
    THEN CHOOSE n \in 1..Len(t) :
            /\ t[n].kind = k
            /\ \A m \in 1..(n - 1) : t[m].kind # k
    ELSE 0

\* C12: a connect() from Disconnected that succeeds has written the mode,
\* PID, lock and acceleration registers of every configured servo and ends
\* connected with torque off.
C12_ConnectEndsTorqueOff ==
    [][(op' = "connect" /\ ~connected /\ ret' = "None") =>
          /\ ConfigWritten(trace')
          /\ connected'
          /\ port' = "open"
          /\ ~torque_enabled']_vars

\* C13: a connect() from Disconnected that fails, at whichever step, raises,
\* has released the port and leaves the engine not connected.
C13_FailedConnectLeavesDisconnected ==
    [][(op' = "connect" /\ ~connected /\ ret' # "None") =>
          /\ port' = "closed"
          /\ trace'[Len(trace')].kind = "close"
          /\ ~connected']_vars

\* The first entry of t is the Torque_Enable = 0 write to all servos.
StartsWithTorqueOff(t) ==
    /\ Len(t) >= 1
    /\ t[1].kind = "write"
    /\ t[1].reg = "Torque_Enable"
    /\ t[1].ids = servo_ids
    /\ t[1].vals = Repeat(0)

\* C14 as claimed: disconnect() with torque on writes Torque_Enable = 0
\* before it closes the port and ends Disconnected; disconnect() on a
\* disconnected engine changes nothing and does nothing on the bus.
C14_DisconnectEndsDisconnected ==
    [][op' = "disconnect" =>
          /\ (connected /\ torque_enabled) =>
                /\ StartsWithTorqueOff(trace')
                /\ FirstOf(trace', "close") > 1
                /\ ~connected'
                /\ port' = "closed"
          /\ ~connected => (UNCHANGED engine /\ trace' = <<>>)]_vars

\* C14 amended: the port is never closed while torque_enabled is true;
\* disconnect() with torque on first writes Torque_Enable = 0; when that write
\* succeeds it closes the port after it and ends Disconnected with torque
\* off, when the write exhausts its retries the error propagates, the port is
\* not closed and the engine stays connected with torque on; disconnect() on
\* a disconnected engine changes nothing and does nothing on the bus.
C14_DisconnectReleasesTorqueFirst ==
    /\ [](torque_enabled => port = "open")
    /\ [][op' = "disconnect" =>
            /\ (connected /\ torque_enabled) =>
                  /\ StartsWithTorqueOff(trace')
                  /\ IF trace'[1].ok
                     THEN /\ ret' = "None"
                          /\ FirstOf(trace', "close") = 2
                          /\ ~connected'
                          /\ ~torque_enabled'
                          /\ port' = "closed"
                     ELSE /\ ret' = "RuntimeError"
                          /\ FirstOf(trace', "close") = 0
                          /\ UNCHANGED engine
            /\ ~connected => (UNCHANGED engine /\ trace' = <<>>)]_vars

\* C14's case: a disconnect() that released torque over the bus and then
\* closed the port.
C14_Witness ==
    /\ op = "disconnect"
    /\ ret = "None"
    /\ StartsWithTorqueOff(trace)
    /\ trace[1].ok
    /\ FirstOf(trace, "close") = 2
    /\ ~connected
    /\ ~torque_enabled
    /\ port = "closed"

\* Some bus transaction, port opening or file write of the call failed.
SomethingFailed(t) == \E n \in 1..Len(t) : ~t[n].ok

\* With the link lost every exchange of the call failed.
EveryExchangeFailed(t) == t # <<>> /\ \A n \in 1..Len(t) : ~t[n].ok

\* C15: a call in which a bus exchange failed raises (the interactive
\* iterative_calibration(), which catches the failures of its own steps,
\* raises when every exchange of it failed); from every reachable
\* state a disconnect() with the link working ends Disconnected with the
\* port closed, and a connect() with the link working that follows a
\* disconnect() ends connected with the port open.
C15_ReconnectAlwaysPossible ==
    [][/\ (SomethingFailed(trace')
             /\ (op' = "iterative_calibration" => EveryExchangeFailed(trace')))
          => ret' # "None"
       /\ (op' = "disconnect" /\ disconnect(TRUE)) =>
             /\ ret' = "None"
             /\ ~connected'
             /\ port' = "closed"
       /\ (op = "disconnect" /\ op' = "connect" /\ connect(TRUE, 0)) =>
             /\ ret' = "None"
             /\ connected'
             /\ port' = "open"]_vars

\* C15's case: a connect() that opened the port again on an engine that had
\* been disconnected in the middle of a calibration.
C15_Witness ==
    /\ op = "connect"
    /\ ret = "None"
    /\ Len(trace) > 0
    /\ connected
    /\ port = "open"
    /\ calibration_mode

\* C16: set_torque_enabled(x) on an engine that is not connected fails, writes
\* nothing and changes nothing; connected, its only bus activity is one
\* Torque_Enable write of x to all configured ids (made whenever the port is
\* open), torque_enabled becomes x exactly when the call returns normally, and
\* a call that fails leaves torque_enabled and everything else as it was.
C16_TorqueSetOnlyOnSuccess ==
    [][op' = "set_torque_enabled" =>
          LET x == args'[1]
              value == Repeat(IF x THEN 1 ELSE 0)
          IN  /\ ~connected =>
                    /\ ret' # "None"
                    /\ trace' = <<>>
                    /\ UNCHANGED engine
              /\ connected =>
                    /\ port = "open" =>
                          /\ Len(trace') = 1
                          /\ trace'[1] = Ev("write", "Torque_Enable", servo_ids,
                                            value, trace'[1].ok)
                    /\ ret' = "None" =>
                          /\ trace' = <<Ev("write", "Torque_Enable", servo_ids,
                                           value, TRUE)>>
                          /\ torque_enabled' = x
                    /\ ret' # "None" =>
                          /\ UNCHANGED engine
                          /\ \A n \in 1..Len(trace') : ~trace'[n].ok
                    /\ UNCHANGED <<connected, calibration_mode,
                                   temp_calibration_data, calibration,
                                   is_calibrated, aliased, store, port>>]_vars

\* C16's case: a set_torque_enabled(False) whose write exhausted its retries
\* left torque on.
C16_Witness ==
    /\ op = "set_torque_enabled"
    /\ ret = "RuntimeError"
    /\ trace = <<Ev("write", "Torque_Enable", servo_ids, Repeat(0), FALSE)>>
    /\ torque_enabled
    /\ ~calibration_mode

\* The call made nothing happen: it raised, with no bus activity and no state
\* change.
FailedUntouched ==
    /\ ret' # "None"
    /\ trace' = <<>>
    /\ UNCHANGED engine

\* C17: set_angle fails with no bus write and no state change whenever the
\* engine is not connected, has no committed calibration or has torque off;
\* get_angles fails with no bus read whenever the engine is not connected or
\* has no committed calibration.
C17_AngleCallsRefused ==
    [][/\ (/\ op' = "set_angle"
           /\ ~connected \/ ~is_calibrated \/ ~bool(calibration) \/ ~torque_enabled)
             => FailedUntouched
       /\ (/\ op' = "get_angles"
           /\ ~connected \/ ~is_calibrated \/ ~bool(calibration))
             => FailedUntouched]_vars

\* C17's case: set_angle refused on a connected, calibrated engine whose
\* torque is off.
C17_Witness ==
    /\ op = "set_angle"
    /\ ret = "AssertionError"
    /\ trace = <<>>
    /\ connected
    /\ port = "open"
    /\ is_calibrated
    /\ ~torque_enabled

\* The map the call was given names a servo id that is not configured.
NamesUnknownId == \E n \in 1..Len(args'[2]) : args'[2][n][1] \notin ServoIds

\* C18: set_angle and set_position given a map that names an id outside the
\* configured set fail with no bus write at all, also when other ids of the
\* map are configured and come first; on an engine that would accept the
\* call otherwise set_position raises ValueError.
C18_UnknownIdNoPartialWrite ==
    [][(op' \in {"set_angle", "set_position"} /\ NamesUnknownId) =>
          /\ FailedUntouched
          /\ (op' = "set_position" /\ connected /\ torque_enabled) =>
                ret' = "ValueError"]_vars

\* C18's case: set_position refused a map whose first id is configured and
\* whose second is not, on an engine that was ready to move.
C18_Witness ==
    /\ op = "set_position"
    /\ ret = "ValueError"
    /\ Len(args[2]) = 2
    /\ args[2][1][1] \in ServoIds
    /\ args[2][2][1] \notin ServoIds
    /\ trace = <<>>
    /\ connected
    /\ port = "open"
    /\ torque_enabled

\* The exchanges among the things done on the port, in order.
Exchanges(t) == SelectSeq(t, LAMBDA e : e.kind = "tx")

\* Every exchange made so far failed.
AllFailed(t) == \A n \in 1..Len(t) : t[n].kind = "tx" => ~t[n].ok

\* C19: a group read or write whose every exchange fails makes exactly
\* NUM_RETRY exchange attempts and then raises a communication error: while
\* the loop runs it has made fewer than NUM_RETRY attempts, all failed; the
\* error is raised after exactly NUM_RETRY failed attempts and a call that
\* made NUM_RETRY failed attempts has raised it; once the call is over
\* nothing more is done on the port; and a call in its loop always leaves it.
C19_RetriesBoundedThenRaises ==
    /\ [](pc = "loop" =>
            /\ Len(Exchanges(packets)) = attempt
            /\ attempt < NUM_RETRY
            /\ AllFailed(packets))
    /\ [](ret = "RuntimeError" =>
            /\ pc \in {"raised", "idle"}
            /\ Len(Exchanges(packets)) = NUM_RETRY
            /\ AllFailed(packets))
    /\ []((AllFailed(packets) /\ Len(Exchanges(packets)) = NUM_RETRY) =>
            ret = "RuntimeError")
    /\ [][(pc = "raised" \/ pc = "returned") => (packets' = packets)]_vars
    /\ (pc = "loop") ~> (pc \in {"raised", "returned"})

\* C19's case: a write whose NUM_RETRY exchanges all failed has raised.
C19_Witness ==
    /\ op = "_write"
    /\ pc = "raised"
    /\ ret = "RuntimeError"
    /\ Len(Exchanges(packets)) = NUM_RETRY
    /\ AllFailed(packets)

\* dict(zip(ids, values)) as get_positions builds it.
Zip(ids, values) ==
    [i \in {ids[n] : n \in 1..Min(Len(ids), Len(values))} |->
        values[CHOOSE n \in 1..Min(Len(ids), Len(values)) : ids[n] = i]]

\* C20: a group read leaves its loop at the first exchange that succeeds (the
\* successful exchange is the last thing done on the port and every one
\* before it failed) and then returns one value per requested id, in request
\* order, each the value that id's servo answered (no ids requested stands
\* for all configured ids); a read that has not returned holds no values, so
\* the caller gets values for all the ids or none.
C20_ReadAllOrNothing ==
    op = "_read" =>
        LET ids == EffectiveIds(args[2])
            ex  == Exchanges(packets)
        IN  /\ ret = "None" =>
                  /\ Len(ex) \in 1..NUM_RETRY
                  /\ ex[Len(ex)].ok
                  /\ \A n \in 1..(Len(ex) - 1) : ~ex[n].ok
                  /\ packets[Len(packets)] = Pk("tx", TRUE)
                  /\ Len(result) = Len(ids)
                  /\ Len(received) = Len(ids)
                  /\ \A n \in 1..Len(ids) : result[n] = received[n]
                  /\ DOMAIN Zip(ids, result) = {ids[n] : n \in 1..Len(ids)}
                  /\ \A n \in 1..Len(ids) : Zip(ids, result)[ids[n]] = received[n]
            /\ ret # "None" => result = <<>>

\* C20's case: a read of two ids that succeeded at its third exchange and
\* returned two different values.
C20_Witness ==
    /\ op = "_read"
    /\ pc = "returned"
    /\ Len(Exchanges(packets)) = 3
    /\ Len(result) = 2
    /\ result[1] # result[2]

\* The transaction was asked for an empty list of ids on an engine that is
\* connected with its port open.
EmptyIdsCall ==
    /\ op \in {"_read", "_write"}
    /\ args[2] = <<>>
    /\ connected
    /\ port = "open"

\* C21: a group read or write called with an empty id list is a no-op: it
\* succeeds, addresses no servo, makes no exchange, and the read returns an
\* empty result.
C21_EmptyIdListIsNoOp ==
    EmptyIdsCall =>
        /\ ret \in {"running", "None"}
        /\ group.ids = <<>>
        /\ Exchanges(packets) = <<>>
        /\ result = <<>>

\* Every exchange is preceded, after the exchange before it, by a reset of
\* the output buffer and of the input buffer.
ClearedBeforeEach(t) ==
    \A n \in 1..Len(t) :
        t[n].kind = "tx" =>
            \E i, j \in 1..(n - 1) :
                /\ t[i].kind = "reset_output_buffer"
                /\ t[j].kind = "reset_input_buffer"
                /\ \A m \in (IF i < j THEN i ELSE j)..(n - 1) : t[m].kind # "tx"

\* C24: every exchange attempt of a group read or write, each retry
\* included, is preceded by a clearing of the serial input and output
\* buffers made after the attempt before it.
C24_BuffersClearedBeforeEachAttempt == ClearedBeforeEach(packets)

\* C25: connect() on an engine that is connected already returns at once:
\* the port is not opened again, nothing is written, and no field changes.
C25_ConnectWhenConnectedIsNoOp ==
    [][(op' = "connect" /\ connected) =>
          /\ ret' = "None"
          /\ trace' = <<>>
          /\ UNCHANGED engine]_vars

\* C25's case: a connect() that did nothing on an engine in the middle of a
\* calibration, torque released.
C25_Witness ==
    /\ op = "connect"
    /\ ret = "None"
    /\ trace = <<>>
    /\ connected
    /\ port = "open"
    /\ calibration_mode
    /\ ~torque_enabled
    /\ bool(temp_calibration_data)

\* The committed point of a servo in the angle mapping.
Cal(servo_id, point_name) == calibration[str(servo_id)][point_name]

\* C26: _angle_to_position(servo, 0) returns exactly the stored zero of that
\* servo, for every calibration triple, in whatever order zero, min and max
\* lie.
C26_AngleZeroIsZeroPoint ==
    (op = "_angle_to_position" /\ args[2] = 0)
        => converted = <<Cal(args[1], "zero")>>

\* Angle 0 on a reversed servo whose zero lies above both min and max.
C26_Witness ==
    /\ op = "_angle_to_position" /\ args = <<servo_ids[1], 0>>
    /\ Cal(servo_ids[1], "zero") = 4
    /\ Cal(servo_ids[1], "min") = 3
    /\ Cal(servo_ids[1], "max") = 1
    /\ converted = <<4>>

\* The position the direction-agnostic formula gives: zero + (angle / 90) *
\* (max - zero) for angle > 0, zero + (angle / 90) * (zero - min) for
\* angle < 0, truncated to an integer.
FormulaPosition(servo_id, angle) ==
    IF angle > 0
    THEN TruncDiv(90 * Cal(servo_id, "zero")
                  + angle * (Cal(servo_id, "max") - Cal(servo_id, "zero")), 90)
    ELSE IF angle < 0
    THEN TruncDiv(90 * Cal(servo_id, "zero")
                  + angle * (Cal(servo_id, "zero") - Cal(servo_id, "min")), 90)
    ELSE Cal(servo_id, "zero")

\* C27: for every calibration triple and every angle, _angle_to_position
\* returns the position of the direction-agnostic formula, reversed servo
\* or not.
C27_FormulaForEveryTriple ==
    op = "_angle_to_position"
        => converted = <<FormulaPosition(args[1], args[2])>>

\* zero lies strictly between min and max, in either mounting direction.
ZeroStrictlyBetween(servo_id) ==
    \/ Cal(servo_id, "min") < Cal(servo_id, "zero")
          /\ Cal(servo_id, "zero") < Cal(servo_id, "max")
    \/ Cal(servo_id, "max") < Cal(servo_id, "zero")
          /\ Cal(servo_id, "zero") < Cal(servo_id, "min")

\* C28: angles beyond +-90 are extrapolated on the same slope and never
\* clamped. With zero strictly between min and max, _angle_to_position
\* returns the position of the linear formula for every angle up to +-180
\* (zero + 2 * (max - zero) at 180, zero - 2 * (zero - min) at -180), and
\* set_angle hands exactly that position to the Goal_Position write.
C28_ExtrapolatesLinearly ==
    /\ (op = "_angle_to_position" /\ ZeroStrictlyBetween(args[1])) =>
          /\ converted = <<FormulaPosition(args[1], args[2])>>
          /\ args[2] = 180 =>
                converted = <<Cal(args[1], "zero")
                              + 2 * (Cal(args[1], "max") - Cal(args[1], "zero"))>>
          /\ args[2] = -180 =>
                converted = <<Cal(args[1], "zero")
                              - 2 * (Cal(args[1], "zero") - Cal(args[1], "min"))>>
    /\ (op = "set_angle" /\ ZeroStrictlyBetween(args[2][1][1])) =>
          /\ ret \in {"None", "RuntimeError"}
          /\ trace = <<Ev("write", "Goal_Position", <<args[2][1][1]>>,
                          <<FormulaPosition(args[2][1][1], args[2][1][2])>>,
                          ret = "None")>>

\* set_angle({1: 180}) with zero 1, min 0, max 4 writes 7, beyond max.
C28_Witness ==
    /\ op = "set_angle" /\ args = <<"angles", <<<<servo_ids[1], 180>>>>>>
    /\ ret = "None"
    /\ Cal(servo_ids[1], "zero") = 1
    /\ Cal(servo_ids[1], "min") = 0
    /\ Cal(servo_ids[1], "max") = 4
    /\ trace = <<Ev("write", "Goal_Position", <<servo_ids[1]>>, <<7>>, TRUE)>>

\* C29: with the first servo's triple normal (min < zero < max) and the
\* mirrored entry holding the same zero with min and max exchanged, the
\* position _angle_to_position gives for angle a under the mirrored entry
\* is the position it gives for -a under the normal one.
C29_ReversedIsReflection ==
    (/\ op = "_angle_to_position"
     /\ args[1] = MirrorId
     /\ Cal(servo_ids[1], "min") < Cal(servo_ids[1], "zero")
     /\ Cal(servo_ids[1], "zero") < Cal(servo_ids[1], "max"))
        => converted = <<_angle_to_position(servo_ids[1], -args[2])>>

\* Angle 45 on the reversed entry (zero 2, min 4, max 0) gives 1, as -45 does
\* on the normal one.
C29_Witness ==
    /\ op = "_angle_to_position" /\ args = <<MirrorId, 45>>
    /\ Cal(servo_ids[1], "zero") = 2
    /\ Cal(servo_ids[1], "min") = 0
    /\ Cal(servo_ids[1], "max") = 4
    /\ Cal(MirrorId, "min") = 4
    /\ Cal(MirrorId, "max") = 0
    /\ converted = <<1>>

\* The span of the side an angle falls on: |max - zero| for a positive
\* angle, |zero - min| for a negative one.
SideSpan(servo_id, angle) ==
    IF angle > 0 THEN abs(Cal(servo_id, "max") - Cal(servo_id, "zero"))
    ELSE abs(Cal(servo_id, "zero") - Cal(servo_id, "min"))

\* |num / den - angle| < 90 / span, for den > 0 and span > 0.
WithinOneUnit(num, den, angle, span) == abs(num - angle * den) * span < 90 * den

\* C30: for every triple with max # zero and min # zero and every angle in
\* [-180, 180], _position_to_angle(_angle_to_position(angle)) differs from
\* angle by less than 90 divided by the span of the angle's side.
C30_RoundTripWithinOneUnit ==
    (/\ op = "test_angle_conversion"
     /\ Cal(args[1], "max") # Cal(args[1], "zero")
     /\ Cal(args[1], "min") # Cal(args[1], "zero"))
        => WithinOneUnit(converted[2], converted[3], args[2],
                         SideSpan(args[1], args[2]))

\* C23: the broadcast task of api/server.py never calls get_angles() while
\* the engine is in calibration mode, whatever the order of the websocket
\* messages and the disconnects.
C23_BroadcastNotDuringCalibration ==
    ~(caller = "broadcast_positions" /\ op = "get_angles" /\ calibration_mode)

\* The threads of ui/server.py that are inside a bus transaction.
InFlight ==
    {h \in Handlers : handler_threads[h] \in InTransaction}
    \cup (IF broadcast_thread \in InTransaction THEN {0} ELSE {})

\* C22: in ui/server.py, with the broadcast thread and the request threads
\* running concurrently, at most one transaction of ServoController (_read
\* or _write) is in flight on the port handle at any time.
C22_OneTransactionAtATime == Cardinality(InFlight) <= 1

\* C31: with zero strictly between min and max, in either direction, the
\* mapping hits the calibration points exactly both ways: _position_to_angle
\* gives 0 at zero, +90 at max and -90 at min, _angle_to_position gives max
\* for +90 and min for -90, and the middle of a side of even span
\* corresponds to +-45 (45 <-> 2560 and -45 <-> 1536 for zero 2048, min
\* 1024, max 3072).
C31_CalibrationPointsExact ==
    /\ (op = "_position_to_angle" /\ ZeroStrictlyBetween(args[1])) =>
          LET zero    == Cal(args[1], "zero")
              min_pos == Cal(args[1], "min")
              max_pos == Cal(args[1], "max")
          IN  /\ args[2] = zero => converted[1] = 0
              /\ args[2] = max_pos => converted[1] = 90 * converted[2]
              /\ args[2] = min_pos => converted[1] = -90 * converted[2]
              /\ (2 * args[2] = zero + max_pos) => converted[1] = 45 * converted[2]
              /\ (2 * args[2] = zero + min_pos) => converted[1] = -45 * converted[2]
    /\ (op = "_angle_to_position" /\ ZeroStrictlyBetween(args[1])) =>
          LET zero    == Cal(args[1], "zero")
              min_pos == Cal(args[1], "min")
              max_pos == Cal(args[1], "max")
          IN  /\ args[2] = 90 => converted = <<max_pos>>
              /\ args[2] = -90 => converted = <<min_pos>>
              /\ (args[2] = 45 /\ (max_pos - zero) % 2 = 0) =>
                    2 * converted[1] = zero + max_pos
              /\ (args[2] = -45 /\ (zero - min_pos) % 2 = 0) =>
                    2 * converted[1] = zero + min_pos

\* _position_to_angle(1, 1536) on {zero 2048, min 1024, max 3072} is -45.
C31_Witness ==
    /\ op = "_position_to_angle" /\ args = <<servo_ids[1], 1536>>
    /\ Cal(servo_ids[1], "zero") = 2048
    /\ Cal(servo_ids[1], "min") = 1024
    /\ Cal(servo_ids[1], "max") = 3072
    /\ converted = <<-46080, 1024>>

\* The span of the side a position lies on, as _position_to_angle takes it:
\* from zero to the larger of min and max for a position above zero, to the
\* smaller one for a position below.
PositionSideSpan(servo_id, position) ==
    LET lo == IF Cal(servo_id, "min") > Cal(servo_id, "max")
              THEN Cal(servo_id, "max") ELSE Cal(servo_id, "min")
        hi == IF Cal(servo_id, "min") > Cal(servo_id, "max")
              THEN Cal(servo_id, "min") ELSE Cal(servo_id, "max")
    IN  IF position > Cal(servo_id, "zero")
        THEN abs(hi - Cal(servo_id, "zero"))
        ELSE abs(Cal(servo_id, "zero") - lo)

\* C32: _position_to_angle never divides by zero; it returns 0.0 when the
\* span on the side of the position is zero, and for that reason only:
\* whenever that span is not zero the result is the inverse of that side,
\* 90 * |position - zero| / span in magnitude.
C32_ZeroOnlyForZeroSpan ==
    op = "_position_to_angle" =>
        LET span == PositionSideSpan(args[1], args[2])
        IN  /\ converted[2] > 0
            /\ span = 0 => converted[1] = 0
            /\ span # 0 =>
                  abs(converted[1]) * span
                      = 90 * abs(args[2] - Cal(args[1], "zero")) * converted[2]

\* The builders of a cache all hold the controller's current port handler.
BuiltOnCurrentHandler(builders) ==
    \A k \in DOMAIN builders : builders[k] = port_handler

\* C33: in ServoController and FeetechController a group reader or writer
\* built under an earlier connection is never used after a reconnect: the
\* caches are empty whenever the controller is not connected, every cached
\* builder holds the port handler of the current connection, and so does
\* the builder a transaction has used.
C33_NoBuilderSurvivesReconnect ==
    /\ ~_is_connected => (_readers = EmptyDict /\ _writers = EmptyDict)
    /\ BuiltOnCurrentHandler(_readers)
    /\ BuiltOnCurrentHandler(_writers)
    /\ (op \in {"_read", "_write"} /\ ret \in {"None", "RuntimeError"})
          => args[3] = port_handler

\* A read on the second connection, with a reader built on its handler.
C33_Witness ==
    /\ controller \in {"ServoController", "FeetechController"}
    /\ op = "_read" /\ ret = "None"
    /\ _is_connected
    /\ port_handler = 2
    /\ args = <<"Present_Position", servo_ids, 2>>
    /\ _readers = [k \in {<<"Present_Position", servo_ids>>} |-> 2]

\* C34: a calibration is in progress only while the engine is connected:
\* disconnect() ends a calibration in progress (mode Idle, draft discarded).
C34_CalibratingImpliesConnected == calibration_mode => connected

\* C35: when writing the calibration file fails in end_calibration(), nothing
\* is committed: the committed set is still the one the store holds, and it
\* does not share the draft, so a later set_calibration_point cannot alter it.
C35_FailedSaveCommitsNothing ==
    (op = "end_calibration" /\ ret = "OSError")
        => (calibration = _load_calibration(store) /\ ~aliased)

\* C36: whenever is_calibrated is true, the committed set holds the zero, min
\* and max points of every configured servo, from construction on and after
\* every end_calibration, so no conversion fails on a missing entry.
C36_CalibratedMeansComplete ==
    is_calibrated => \A servo_id \in ServoIds : HasEntry(servo_id)

\* Two fractions <<numerator, denominator>> that are the same number.
SameAngle(x, y) == x[1] * y[2] = y[1] * x[2]

\* C37: the two angle mappings agree. For every calibration triple with
\* zero strictly between min and max, normal or reversed,
\* ServoController._angle_to_position returns the position that
\* Servos._angle_to_position returns for the same angle, and
\* ServoController._position_to_angle returns the angle that
\* Servos._position_to_angle returns for the same position.
C37_MappingsAgree ==
    /\ (op = "ServoController._angle_to_position"
            /\ ZeroStrictlyBetween(args[2]))
          => converted = <<_angle_to_position(args[2], args[1])>>
    /\ (op = "ServoController._position_to_angle"
            /\ ZeroStrictlyBetween(args[2]))
          => /\ ret = "None"
             /\ SameAngle(converted, _position_to_angle(args[2], args[1]))

\* A reversed servo (max < zero < min) mapped by the controller: +45 degrees
\* lies halfway from zero to max.
C37_Witness ==
    /\ op = "ServoController._angle_to_position"
    /\ args = <<45, servo_ids[1]>>
    /\ Cal(servo_ids[1], "zero") = 2048
    /\ Cal(servo_ids[1], "min") = 3072
    /\ Cal(servo_ids[1], "max") = 1024
    /\ converted = <<1536>>

\* C39: iterative_calibration() always exits with calibration mode Idle, on
\* every path and whatever bus read or write fails.
C39_IterativeCalibrationEndsIdle ==
    (op = "iterative_calibration" /\ ret # "AssertionError") => ~calibration_mode

\* C38: in api/server.py the is_calibrating flag is set only while the
\* engine is in calibration mode; a start_calibration message that does not
\* bring the engine into calibration mode leaves the flag clear.
C38_FlagOnlyWhileCalibrating == is_calibrating => calibration_mode

\* The number the first n bytes of a little-endian list stand for.
RECURSIVE Decode(_, _)
Decode(bytes, n) ==
    IF n = 0 THEN 0 ELSE Decode(bytes, n - 1) + bytes[n] * Pow256(n - 1)

\* C40: _to_bytes(value, size) for size 1, 2 or 4 returns exactly size bytes,
\* each in 0..255, that are the little-endian encoding of
\* value mod 2^(8*size); for any other size it raises and returns no list.
\* (For size 4 the three low bytes stand for value mod 2^24 and the high
\* byte completes a non-negative value, or is 255 for a negative value
\* above -2^24.)
C40_ToBytesLittleEndian ==
    op = "_to_bytes" =>
        LET v == args[1]
            size == args[2]
        IN  IF size \in {1, 2, 4}
            THEN /\ ret = "None"
                 /\ Len(converted) = size
                 /\ \A k \in 1..size : converted[k] \in 0..255
                 /\ size = 1 => Decode(converted, 1) = v % 256
                 /\ size = 2 => Decode(converted, 2) = v % 65536
                 /\ size = 4 =>
                       /\ Decode(converted, 3) = v % 16777216
                       /\ v >= 0 => Decode(converted, 4) = v
                       /\ (v < 0 /\ v >= -16777216) => converted[4] = 255
            ELSE /\ ret = "ValueError"
                 /\ converted = <<>>

\* A two-byte position with both bytes in use.
C40_Witness ==
    /\ op = "_to_bytes"
    /\ args = <<4095, 2>>
    /\ converted = <<255, 15>>
    /\ ret = "None"

====
